---------------------------- MODULE Spec2Model ----------------------------
(***************************************************************************)
(* OffBeat frontend: the analysis result views (CompareView, AnalysisView), *)
(* the anomaly reason parser, the backend response transform and the        *)
(* ActionDashboard request life cycle.                                      *)
(*                                                                          *)
(* Numbers that the source writes with decimals (scores, audio means, tag   *)
(* weights) are kept as integers in thousandths.  A JavaScript division is  *)
(* kept as an exact fraction or as NaN / Infinity, see JsDiv.               *)
(* A JavaScript object used as a Record is a sequence of [key, val]         *)
(* entries in insertion order; a string the code scans with a regular       *)
(* expression is a sequence of one-character strings.                       *)
(***************************************************************************)
EXTENDS Integers, Sequences, FiniteSets, TLC

VARIABLES
  currentAction,      \* ActionDashboard prop: the backend action key
  selectedPlaylists,  \* ActionDashboard prop: ids of the selected playlists
  loading,            \* ActionDashboard useState(true)
  error,              \* ActionDashboard useState<string | null>(null)
  result,             \* ActionDashboard useState(null): the action's result
  activePlaylist,     \* AnalysisView useState(0): index of the shown tab
  view,               \* what renderResult() last put on the screen
  reason,             \* AnomalyCard prop: anomaly.reason
  parsed,             \* AnomalyCard useMemo: parseAnomalyReason(anomaly.reason)
  now,                \* the clock new Date() reads, in milliseconds
  runs,               \* history: the runs of analyzePlaylists' transform so far
  pc,                 \* where executeAction stands: mounted, awaiting, settled
  request,            \* the fetch executeAction is awaiting
  response,           \* the last response a fetch of executeAction got
  issued,             \* history: backend requests executeAction issued since mount
  retries,            \* history: clicks on ActionDashboard's Retry since mount
  inFlight,           \* requests of executeAction that are not answered yet
  token,              \* localStorage["hacklytics_jwt"]
  settled,            \* how the promise of the last apiFetch call settled
  location,           \* the router's location: path and `token` query parameter
  home,               \* HomePage: its state, its ref and its pending effects
  fetches             \* the playlist fetches Effect 2 started, oldest first

dashVars == <<currentAction, selectedPlaylists, loading, error, result,
              activePlaylist, view>>
cardVars == <<reason, parsed>>
apiVars == <<now, runs>>
fetchVars == <<pc, request, response>>
countVars == <<issued, retries, inFlight>>
homeVars == <<location, home, fetches>>
vars == <<dashVars, cardVars, apiVars, fetchVars, countVars, token, settled, homeVars>>

---------------------------------------------------------------------------
(* Bounds of the model *)

MaxPlaylists == 2    \* playlists in one AnalysisResult
MaxSize == 2         \* largest cluster size of a generated cluster
MaxClauses == 2      \* deviation clauses of a generated reason string
MaxClusters == 2     \* clusters of one playlist in a backend response
MaxClock == 2        \* milliseconds the clock runs for
MaxRequests == 3     \* backend requests one mount of ActionDashboard issues

---------------------------------------------------------------------------
(* JavaScript values *)

NoError == "null"
NullResult == [kind |-> "null"]
Undefined == [kind |-> "undefined"]

NaN == [kind |-> "NaN"]
PosInfinity == [kind |-> "Infinity"]
NegInfinity == [kind |-> "-Infinity"]
Num(n, d) == [kind |-> "finite", num |-> n, den |-> d]

\* a / b on two integers, as IEEE-754 division decides the special cases
JsDiv(a, b) ==
  IF b > 0 THEN Num(a, b)
  ELSE IF b < 0 THEN Num(0 - a, 0 - b)
  ELSE IF a = 0 THEN NaN
  ELSE IF a > 0 THEN PosInfinity ELSE NegInfinity

\* x * k for a division result x and an integer k > 0
JsTimes(x, k) == IF x.kind = "finite" THEN Num(x.num * k, x.den) ELSE x

IsFinite(x) == x.kind = "finite"

\* two finite fractions denote the same number
SameNumber(x, y) ==
  IF x.den = y.den THEN x.num = y.num ELSE x.num * y.den = y.num * x.den

Range(s) == {s[i] : i \in DOMAIN s}

\* Array.prototype.reduce((s, x) => s + x, 0) over a sequence of integers
RECURSIVE SumSeq(_)
SumSeq(s) == IF s = <<>> THEN 0 ELSE s[1] + SumSeq(Tail(s))

\* names every object inherits from Object.prototype: `key in obj` is true
\* for them whatever the object's own keys are
ObjectPrototypeKeys ==
  {"constructor", "hasOwnProperty", "isPrototypeOf", "propertyIsEnumerable",
   "toLocaleString", "toString", "valueOf", "__proto__",
   "__defineGetter__", "__defineSetter__", "__lookupGetter__", "__lookupSetter__"}

ObjectKeys(o) == [i \in DOMAIN o |-> o[i].key]
ObjectValues(o) == [i \in DOMAIN o |-> o[i].val]
HasOwn(o, k) == \E i \in DOMAIN o : o[i].key = k
\* the `in` operator
In(k, o) == HasOwn(o, k) \/ k \in ObjectPrototypeKeys
\* obj[k] for an own key, undefined otherwise
Get(o, k) ==
  IF HasOwn(o, k) THEN o[CHOOSE i \in DOMAIN o : o[i].key = k].val ELSE Undefined

\* obj[k] = v: an existing key keeps its place, a new key goes last
ObjectSet(o, k, v) ==
  IF HasOwn(o, k)
  THEN [i \in DOMAIN o |-> IF o[i].key = k THEN [key |-> k, val |-> v] ELSE o[i]]
  ELSE Append(o, [key |-> k, val |-> v])

\* Object.keys(AUDIO_FEATURE_META)
Features ==
  <<"energy", "danceability", "valence", "acousticness", "speechiness",
    "instrumentalness", "liveness", "loudness", "tempo">>

---------------------------------------------------------------------------
(* placeholderData.ts: PLACEHOLDER_ANALYSIS *)

PLACEHOLDER_ANALYSIS ==
  [generated_at |-> "2026-02-22T09:13:50.367736+00:00",
   num_playlists |-> 2,
   playlists |-> <<
     [playlist_id |-> "7qF4mOQrz3xPssEeYTc53q", playlist_name |-> "sahith songs",
      summary |-> [num_tracks |-> 701, num_eligible |-> 658, num_excluded_missing_all |-> 43, num_excluded_insufficient_audio_cluster |-> 0, num_clusters |-> 8, num_anomalies |-> 99, anomaly_score_cutoff |-> 773],
      clusters |-> <<
         [key |-> "high_energy_sad_fast",
          val |-> [cluster_id |-> 4, size |-> 102,
            centroid_features |-> [
              audio_means |-> [acousticness |-> 75, danceability |-> 688, energy |-> 674, instrumentalness |-> 2, liveness |-> 160, loudness |-> -5070, speechiness |-> 74, tempo |-> 142560, valence |-> 225],
              top_tags |-> <<"rap", "trap", "hip", "hop", "pop", "hip-hop", "rage", "cloud">>,
              tag_weights_top |-> <<[key |-> "rap", val |-> 133], [key |-> "trap", val |-> 109], [key |-> "hip", val |-> 65], [key |-> "hop", val |-> 65], [key |-> "pop", val |-> 58], [key |-> "hip-hop", val |-> 44], [key |-> "rage", val |-> 42], [key |-> "cloud", val |-> 36]>>],
            tracks |-> <<
               [spotify_id |-> "3aQem4jVGdhtg116TmJnHz", title |-> "What's Next", cluster_id |-> 4, anomaly_score |-> 644, is_anomaly |-> FALSE,
                reason |-> <<>>],
               [spotify_id |-> "08dz3ygXyFur6bL7Au8u8J", title |-> "Over", cluster_id |-> 4, anomaly_score |-> 658, is_anomaly |-> FALSE,
                reason |-> <<>>],
               [spotify_id |-> "5UwhSyAaU6b5RHeYPzxZld", title |-> "LIL DEMON", cluster_id |-> 4, anomaly_score |-> 660, is_anomaly |-> FALSE,
                reason |-> <<>>]>>]],
         [key |-> "medium_energy_sad",
          val |-> [cluster_id |-> 6, size |-> 70,
            centroid_features |-> [
              audio_means |-> [acousticness |-> 129, danceability |-> 526, energy |-> 594, instrumentalness |-> 11, liveness |-> 173, loudness |-> -6750, speechiness |-> 64, tempo |-> 101530, valence |-> 241],
              top_tags |-> <<"rap", "trap", "rnb", "pop", "hop", "hip", "electronic", "soul">>,
              tag_weights_top |-> <<[key |-> "rap", val |-> 120], [key |-> "trap", val |-> 98], [key |-> "rnb", val |-> 70], [key |-> "pop", val |-> 65], [key |-> "hop", val |-> 58], [key |-> "hip", val |-> 55], [key |-> "electronic", val |-> 35], [key |-> "soul", val |-> 28]>>],
            tracks |-> <<
               [spotify_id |-> "3CDVMejYHnB1SkEEx0T1N4", title |-> "PRIDE.", cluster_id |-> 6, anomaly_score |-> 520, is_anomaly |-> FALSE,
                reason |-> <<>>],
               [spotify_id |-> "1mWGaYN0MCECbiYWfaJwm6", title |-> "Snooze", cluster_id |-> 6, anomaly_score |-> 542, is_anomaly |-> FALSE,
                reason |-> <<>>]>>]],
         [key |-> "medium_energy_sad_fast",
          val |-> [cluster_id |-> 2, size |-> 90,
            centroid_features |-> [
              audio_means |-> [acousticness |-> 114, danceability |-> 727, energy |-> 609, instrumentalness |-> 1, liveness |-> 182, loudness |-> -6510, speechiness |-> 314, tempo |-> 155580, valence |-> 363],
              top_tags |-> <<"rap", "trap", "hop", "hip", "pop", "hip-hop", "southern", "lil">>,
              tag_weights_top |-> <<[key |-> "rap", val |-> 135], [key |-> "trap", val |-> 116], [key |-> "hop", val |-> 92], [key |-> "hip", val |-> 90], [key |-> "pop", val |-> 51], [key |-> "hip-hop", val |-> 49], [key |-> "southern", val |-> 27], [key |-> "lil", val |-> 26]>>],
            tracks |-> <<
               [spotify_id |-> "2FvD20Z8aoWIePi7PoN8sG", title |-> "TOES (feat. Lil Baby & Moneybagg Yo)", cluster_id |-> 2, anomaly_score |-> 529, is_anomaly |-> FALSE,
                reason |-> <<>>],
               [spotify_id |-> "5AqiaRGBPOmjUGaNPMaBb9", title |-> "Life Is Good (feat. Drake)", cluster_id |-> 2, anomaly_score |-> 540, is_anomaly |-> FALSE,
                reason |-> <<>>]>>]],
         [key |-> "high_energy_neutral",
          val |-> [cluster_id |-> 5, size |-> 74,
            centroid_features |-> [
              audio_means |-> [acousticness |-> 198, danceability |-> 684, energy |-> 685, instrumentalness |-> 0, liveness |-> 195, loudness |-> -6320, speechiness |-> 302, tempo |-> 96890, valence |-> 524],
              top_tags |-> <<"hip", "hop", "rap", "hip-hop", "west", "conscious", "kanye", "trap">>,
              tag_weights_top |-> <<[key |-> "hip", val |-> 139], [key |-> "hop", val |-> 138], [key |-> "rap", val |-> 114], [key |-> "hip-hop", val |-> 101], [key |-> "west", val |-> 73], [key |-> "conscious", val |-> 63], [key |-> "kanye", val |-> 63], [key |-> "trap", val |-> 46]>>],
            tracks |-> <<
               [spotify_id |-> "3s7MCdkMT6eDgvmOJhtPcz", title |-> "All Of The Lights", cluster_id |-> 5, anomaly_score |-> 410, is_anomaly |-> FALSE,
                reason |-> <<>>],
               [spotify_id |-> "7nPhf1YW1gZZP8kN6kn5fQ", title |-> "Gorgeous", cluster_id |-> 5, anomaly_score |-> 450, is_anomaly |-> FALSE,
                reason |-> <<>>]>>]],
         [key |-> "high_energy_happy",
          val |-> [cluster_id |-> 7, size |-> 86,
            centroid_features |-> [
              audio_means |-> [acousticness |-> 160, danceability |-> 769, energy |-> 714, instrumentalness |-> 1, liveness |-> 159, loudness |-> -5290, speechiness |-> 97, tempo |-> 127300, valence |-> 672],
              top_tags |-> <<"rap", "pop", "trap", "rnb", "hip", "hop", "hip-hop", "kpop">>,
              tag_weights_top |-> <<[key |-> "rap", val |-> 99], [key |-> "pop", val |-> 92], [key |-> "trap", val |-> 86], [key |-> "rnb", val |-> 44], [key |-> "hip", val |-> 40], [key |-> "hop", val |-> 40], [key |-> "hip-hop", val |-> 34], [key |-> "kpop", val |-> 30]>>],
            tracks |-> <<
               [spotify_id |-> "4h9wh7iOZ0GGn8QVp4RAOB", title |-> "I Ain't Worried", cluster_id |-> 7, anomaly_score |-> 482, is_anomaly |-> FALSE,
                reason |-> <<>>],
               [spotify_id |-> "2LBqCSwhJGcFQeTHMVGwy3", title |-> "Die For You", cluster_id |-> 7, anomaly_score |-> 500, is_anomaly |-> FALSE,
                reason |-> <<>>]>>]]>>,
      anomalies |-> <<
         \* Anomalous vs dominant mood 'high_energy_sad_fast'. distance_score=1.00. lower tempo by 65 BPM; higher loudness by 0.7 dB; higher energy by 0.12
         [spotify_id |-> "3CDVMejYHnB1SkEEx0T1N4", title |-> "Many Men", cluster_id |-> 6, anomaly_score |-> 1000,
          reason |-> <<"A","n","o","m","a","l","o","u","s"," ","v","s"," ","d","o","m","i","n","a","n","t"," ","m","o","o","d"," ","'","h","i","g","h","_","e","n","e","r","g","y","_","s","a","d","_","f","a","s","t","'","."," ","d","i","s","t","a","n","c","e","_","s","c","o","r","e","=","1",".","0","0","."," ","l","o","w","e","r"," ","t","e","m","p","o"," ","b","y"," ","6","5"," ","B","P","M",";"," ","h","i","g","h","e","r"," ","l","o","u","d","n","e","s","s"," ","b","y"," ","0",".","7"," ","d","B",";"," ","h","i","g","h","e","r"," ","e","n","e","r","g","y"," ","b","y"," ","0",".","1","2">>],
         \* Anomalous vs dominant mood 'high_energy_sad_fast'. distance_score=0.90. lower tempo by 3 BPM; lower loudness by 0.5 dB; higher valence by 0.21
         [spotify_id |-> "5DxDLsW6PsLz5gkwC7Mk5S", title |-> "Free", cluster_id |-> 4, anomaly_score |-> 904,
          reason |-> <<"A","n","o","m","a","l","o","u","s"," ","v","s"," ","d","o","m","i","n","a","n","t"," ","m","o","o","d"," ","'","h","i","g","h","_","e","n","e","r","g","y","_","s","a","d","_","f","a","s","t","'","."," ","d","i","s","t","a","n","c","e","_","s","c","o","r","e","=","0",".","9","0","."," ","l","o","w","e","r"," ","t","e","m","p","o"," ","b","y"," ","3"," ","B","P","M",";"," ","l","o","w","e","r"," ","l","o","u","d","n","e","s","s"," ","b","y"," ","0",".","5"," ","d","B",";"," ","h","i","g","h","e","r"," ","v","a","l","e","n","c","e"," ","b","y"," ","0",".","2","1">>],
         \* Anomalous vs dominant mood 'high_energy_sad_fast'. distance_score=0.88. higher tempo by 3 BPM; lower loudness by 0.8 dB; lower danceability by 0.15
         [spotify_id |-> "5wNIHa6wvCCKP6fWgo3UAh", title |-> "CHAMPAIN & VACAY", cluster_id |-> 2, anomaly_score |-> 877,
          reason |-> <<"A","n","o","m","a","l","o","u","s"," ","v","s"," ","d","o","m","i","n","a","n","t"," ","m","o","o","d"," ","'","h","i","g","h","_","e","n","e","r","g","y","_","s","a","d","_","f","a","s","t","'","."," ","d","i","s","t","a","n","c","e","_","s","c","o","r","e","=","0",".","8","8","."," ","h","i","g","h","e","r"," ","t","e","m","p","o"," ","b","y"," ","3"," ","B","P","M",";"," ","l","o","w","e","r"," ","l","o","u","d","n","e","s","s"," ","b","y"," ","0",".","8"," ","d","B",";"," ","l","o","w","e","r"," ","d","a","n","c","e","a","b","i","l","i","t","y"," ","b","y"," ","0",".","1","5">>],
         \* Anomalous vs dominant mood 'high_energy_sad_fast'. distance_score=0.88. higher tempo by 13 BPM; higher acousticness by 0.71; higher valence by 0.35
         [spotify_id |-> "6cfVDaIdvDtYH91RqC6Wox", title |-> "Hol' Up", cluster_id |-> 5, anomaly_score |-> 876,
          reason |-> <<"A","n","o","m","a","l","o","u","s"," ","v","s"," ","d","o","m","i","n","a","n","t"," ","m","o","o","d"," ","'","h","i","g","h","_","e","n","e","r","g","y","_","s","a","d","_","f","a","s","t","'","."," ","d","i","s","t","a","n","c","e","_","s","c","o","r","e","=","0",".","8","8","."," ","h","i","g","h","e","r"," ","t","e","m","p","o"," ","b","y"," ","1","3"," ","B","P","M",";"," ","h","i","g","h","e","r"," ","a","c","o","u","s","t","i","c","n","e","s","s"," ","b","y"," ","0",".","7","1",";"," ","h","i","g","h","e","r"," ","v","a","l","e","n","c","e"," ","b","y"," ","0",".","3","5">>],
         \* Anomalous vs dominant mood 'high_energy_sad_fast'. distance_score=0.87. higher tempo by 7 BPM; lower loudness by 2.4 dB; lower danceability by 0.14
         [spotify_id |-> "7lsYGc5H5DHktxO7gbB8bN", title |-> "Ordinary Life", cluster_id |-> 6, anomaly_score |-> 869,
          reason |-> <<"A","n","o","m","a","l","o","u","s"," ","v","s"," ","d","o","m","i","n","a","n","t"," ","m","o","o","d"," ","'","h","i","g","h","_","e","n","e","r","g","y","_","s","a","d","_","f","a","s","t","'","."," ","d","i","s","t","a","n","c","e","_","s","c","o","r","e","=","0",".","8","7","."," ","h","i","g","h","e","r"," ","t","e","m","p","o"," ","b","y"," ","7"," ","B","P","M",";"," ","l","o","w","e","r"," ","l","o","u","d","n","e","s","s"," ","b","y"," ","2",".","4"," ","d","B",";"," ","l","o","w","e","r"," ","d","a","n","c","e","a","b","i","l","i","t","y"," ","b","y"," ","0",".","1","4">>],
         \* Anomalous vs dominant mood 'high_energy_sad_fast'. distance_score=0.86. lower tempo by 18 BPM; lower loudness by 1.3 dB; higher speechiness by 0.15
         [spotify_id |-> "4vqwVaEqLNWo3UXhQi5IFH", title |-> "FLORIDA FLOW", cluster_id |-> 2, anomaly_score |-> 865,
          reason |-> <<"A","n","o","m","a","l","o","u","s"," ","v","s"," ","d","o","m","i","n","a","n","t"," ","m","o","o","d"," ","'","h","i","g","h","_","e","n","e","r","g","y","_","s","a","d","_","f","a","s","t","'","."," ","d","i","s","t","a","n","c","e","_","s","c","o","r","e","=","0",".","8","6","."," ","l","o","w","e","r"," ","t","e","m","p","o"," ","b","y"," ","1","8"," ","B","P","M",";"," ","l","o","w","e","r"," ","l","o","u","d","n","e","s","s"," ","b","y"," ","1",".","3"," ","d","B",";"," ","h","i","g","h","e","r"," ","s","p","e","e","c","h","i","n","e","s","s"," ","b","y"," ","0",".","1","5">>],
         \* Anomalous vs dominant mood 'high_energy_sad_fast'. distance_score=0.86. higher tempo by 4 BPM; lower loudness by 1.8 dB; higher acousticness by 0.19
         [spotify_id |-> "0IX5OFffosy8wk16m1IFCa", title |-> "Drugs N Hella Melodies (feat. Kali Uchis)", cluster_id |-> 4, anomaly_score |-> 861,
          reason |-> <<"A","n","o","m","a","l","o","u","s"," ","v","s"," ","d","o","m","i","n","a","n","t"," ","m","o","o","d"," ","'","h","i","g","h","_","e","n","e","r","g","y","_","s","a","d","_","f","a","s","t","'","."," ","d","i","s","t","a","n","c","e","_","s","c","o","r","e","=","0",".","8","6","."," ","h","i","g","h","e","r"," ","t","e","m","p","o"," ","b","y"," ","4"," ","B","P","M",";"," ","l","o","w","e","r"," ","l","o","u","d","n","e","s","s"," ","b","y"," ","1",".","8"," ","d","B",";"," ","h","i","g","h","e","r"," ","a","c","o","u","s","t","i","c","n","e","s","s"," ","b","y"," ","0",".","1","9">>],
         \* Anomalous vs dominant mood 'high_energy_sad_fast'. distance_score=0.86. higher tempo by 27 BPM; lower loudness by 1.1 dB; higher acousticness by 0.24
         [spotify_id |-> "03auLpFLdCv4HozP4pQseu", title |-> "ATM", cluster_id |-> 2, anomaly_score |-> 859,
          reason |-> <<"A","n","o","m","a","l","o","u","s"," ","v","s"," ","d","o","m","i","n","a","n","t"," ","m","o","o","d"," ","'","h","i","g","h","_","e","n","e","r","g","y","_","s","a","d","_","f","a","s","t","'","."," ","d","i","s","t","a","n","c","e","_","s","c","o","r","e","=","0",".","8","6","."," ","h","i","g","h","e","r"," ","t","e","m","p","o"," ","b","y"," ","2","7"," ","B","P","M",";"," ","l","o","w","e","r"," ","l","o","u","d","n","e","s","s"," ","b","y"," ","1",".","1"," ","d","B",";"," ","h","i","g","h","e","r"," ","a","c","o","u","s","t","i","c","n","e","s","s"," ","b","y"," ","0",".","2","4">>],
         \* Anomalous vs dominant mood 'high_energy_sad_fast'. distance_score=0.85. lower tempo by 9 BPM; lower loudness by 0.4 dB; higher acousticness by 0.22
         [spotify_id |-> "38HkYfvnhHLLB5Yaj2VpZg", title |-> "No Photos", cluster_id |-> 7, anomaly_score |-> 848,
          reason |-> <<"A","n","o","m","a","l","o","u","s"," ","v","s"," ","d","o","m","i","n","a","n","t"," ","m","o","o","d"," ","'","h","i","g","h","_","e","n","e","r","g","y","_","s","a","d","_","f","a","s","t","'","."," ","d","i","s","t","a","n","c","e","_","s","c","o","r","e","=","0",".","8","5","."," ","l","o","w","e","r"," ","t","e","m","p","o"," ","b","y"," ","9"," ","B","P","M",";"," ","l","o","w","e","r"," ","l","o","u","d","n","e","s","s"," ","b","y"," ","0",".","4"," ","d","B",";"," ","h","i","g","h","e","r"," ","a","c","o","u","s","t","i","c","n","e","s","s"," ","b","y"," ","0",".","2","2">>],
         \* Anomalous vs dominant mood 'high_energy_sad_fast'. distance_score=0.84. lower tempo by 55 BPM; lower loudness by 1.2 dB; higher acousticness by 0.08
         [spotify_id |-> "1I37Zz2g3hk9eWxaNkj031", title |-> "90210 (feat. Kacy Hill)", cluster_id |-> 4, anomaly_score |-> 840,
          reason |-> <<"A","n","o","m","a","l","o","u","s"," ","v","s"," ","d","o","m","i","n","a","n","t"," ","m","o","o","d"," ","'","h","i","g","h","_","e","n","e","r","g","y","_","s","a","d","_","f","a","s","t","'","."," ","d","i","s","t","a","n","c","e","_","s","c","o","r","e","=","0",".","8","4","."," ","l","o","w","e","r"," ","t","e","m","p","o"," ","b","y"," ","5","5"," ","B","P","M",";"," ","l","o","w","e","r"," ","l","o","u","d","n","e","s","s"," ","b","y"," ","1",".","2"," ","d","B",";"," ","h","i","g","h","e","r"," ","a","c","o","u","s","t","i","c","n","e","s","s"," ","b","y"," ","0",".","0","8">>],
         \* Anomalous vs dominant mood 'high_energy_sad_fast'. distance_score=0.83. higher tempo by 8 BPM; higher valence by 0.31; lower danceability by 0.12
         [spotify_id |-> "5nCaV4M3sTPGCu4lQ7n8iJ", title |-> "Heartless", cluster_id |-> 4, anomaly_score |-> 832,
          reason |-> <<"A","n","o","m","a","l","o","u","s"," ","v","s"," ","d","o","m","i","n","a","n","t"," ","m","o","o","d"," ","'","h","i","g","h","_","e","n","e","r","g","y","_","s","a","d","_","f","a","s","t","'","."," ","d","i","s","t","a","n","c","e","_","s","c","o","r","e","=","0",".","8","3","."," ","h","i","g","h","e","r"," ","t","e","m","p","o"," ","b","y"," ","8"," ","B","P","M",";"," ","h","i","g","h","e","r"," ","v","a","l","e","n","c","e"," ","b","y"," ","0",".","3","1",";"," ","l","o","w","e","r"," ","d","a","n","c","e","a","b","i","l","i","t","y"," ","b","y"," ","0",".","1","2">>],
         \* Anomalous vs dominant mood 'high_energy_sad_fast'. distance_score=0.82. lower tempo by 10 BPM; higher valence by 0.28; higher acousticness by 0.15
         [spotify_id |-> "7qPksyJaBsK25MJFkXn2Jl", title |-> "Laugh Now Cry Later", cluster_id |-> 7, anomaly_score |-> 821,
          reason |-> <<"A","n","o","m","a","l","o","u","s"," ","v","s"," ","d","o","m","i","n","a","n","t"," ","m","o","o","d"," ","'","h","i","g","h","_","e","n","e","r","g","y","_","s","a","d","_","f","a","s","t","'","."," ","d","i","s","t","a","n","c","e","_","s","c","o","r","e","=","0",".","8","2","."," ","l","o","w","e","r"," ","t","e","m","p","o"," ","b","y"," ","1","0"," ","B","P","M",";"," ","h","i","g","h","e","r"," ","v","a","l","e","n","c","e"," ","b","y"," ","0",".","2","8",";"," ","h","i","g","h","e","r"," ","a","c","o","u","s","t","i","c","n","e","s","s"," ","b","y"," ","0",".","1","5">>]>>],
     [playlist_id |-> "19UHSXDaXJqjYSLS53ZL1Z", playlist_name |-> "hype",
      summary |-> [num_tracks |-> 255, num_eligible |-> 238, num_excluded_missing_all |-> 17, num_excluded_insufficient_audio_cluster |-> 0, num_clusters |-> 7, num_anomalies |-> 36, anomaly_score_cutoff |-> 806],
      clusters |-> <<
         [key |-> "high_energy_neutral",
          val |-> [cluster_id |-> 0, size |-> 24,
            centroid_features |-> [
              audio_means |-> [acousticness |-> 85, danceability |-> 620, energy |-> 780, instrumentalness |-> 3, liveness |-> 210, loudness |-> -4500, speechiness |-> 120, tempo |-> 130500, valence |-> 510],
              top_tags |-> <<"rap", "trap", "hype", "electronic", "bass", "edm", "energy", "pop">>,
              tag_weights_top |-> <<[key |-> "rap", val |-> 145], [key |-> "trap", val |-> 130], [key |-> "hype", val |-> 95], [key |-> "electronic", val |-> 70], [key |-> "bass", val |-> 55], [key |-> "edm", val |-> 48], [key |-> "energy", val |-> 40], [key |-> "pop", val |-> 35]>>],
            tracks |-> <<
               [spotify_id |-> "abc123", title |-> "Sicko Mode", cluster_id |-> 0, anomaly_score |-> 350, is_anomaly |-> FALSE,
                reason |-> <<>>],
               [spotify_id |-> "def456", title |-> "HUMBLE.", cluster_id |-> 0, anomaly_score |-> 380, is_anomaly |-> FALSE,
                reason |-> <<>>]>>]],
         [key |-> "medium_energy_sad_fast",
          val |-> [cluster_id |-> 1, size |-> 40,
            centroid_features |-> [
              audio_means |-> [acousticness |-> 95, danceability |-> 710, energy |-> 620, instrumentalness |-> 1, liveness |-> 175, loudness |-> -6200, speechiness |-> 290, tempo |-> 148800, valence |-> 340],
              top_tags |-> <<"rap", "trap", "hop", "hip", "hip-hop", "southern", "dark", "melodic">>,
              tag_weights_top |-> <<[key |-> "rap", val |-> 140], [key |-> "trap", val |-> 118], [key |-> "hop", val |-> 88], [key |-> "hip", val |-> 85], [key |-> "hip-hop", val |-> 52], [key |-> "southern", val |-> 30], [key |-> "dark", val |-> 28], [key |-> "melodic", val |-> 25]>>],
            tracks |-> <<
               [spotify_id |-> "ghi789", title |-> "XO Tour Llif3", cluster_id |-> 1, anomaly_score |-> 450, is_anomaly |-> FALSE,
                reason |-> <<>>]>>]],
         [key |-> "high_energy_happy",
          val |-> [cluster_id |-> 5, size |-> 31,
            centroid_features |-> [
              audio_means |-> [acousticness |-> 140, danceability |-> 780, energy |-> 740, instrumentalness |-> 1, liveness |-> 150, loudness |-> -4900, speechiness |-> 85, tempo |-> 122400, valence |-> 700],
              top_tags |-> <<"pop", "rap", "dance", "rnb", "party", "hip-hop", "trap", "summer">>,
              tag_weights_top |-> <<[key |-> "pop", val |-> 110], [key |-> "rap", val |-> 98], [key |-> "dance", val |-> 82], [key |-> "rnb", val |-> 60], [key |-> "party", val |-> 50], [key |-> "hip-hop", val |-> 42], [key |-> "trap", val |-> 38], [key |-> "summer", val |-> 30]>>],
            tracks |-> <<
               [spotify_id |-> "jkl012", title |-> "Levitating", cluster_id |-> 5, anomaly_score |-> 320, is_anomaly |-> FALSE,
                reason |-> <<>>]>>]],
         [key |-> "high_energy_sad_fast",
          val |-> [cluster_id |-> 6, size |-> 39,
            centroid_features |-> [
              audio_means |-> [acousticness |-> 65, danceability |-> 695, energy |-> 700, instrumentalness |-> 2, liveness |-> 155, loudness |-> -4800, speechiness |-> 80, tempo |-> 145200, valence |-> 210],
              top_tags |-> <<"rap", "trap", "rage", "cloud", "hip-hop", "dark", "bass", "electronic">>,
              tag_weights_top |-> <<[key |-> "rap", val |-> 140], [key |-> "trap", val |-> 120], [key |-> "rage", val |-> 65], [key |-> "cloud", val |-> 50], [key |-> "hip-hop", val |-> 42], [key |-> "dark", val |-> 38], [key |-> "bass", val |-> 30], [key |-> "electronic", val |-> 28]>>],
            tracks |-> <<
               [spotify_id |-> "mno345", title |-> "Rockstar", cluster_id |-> 6, anomaly_score |-> 500, is_anomaly |-> FALSE,
                reason |-> <<>>]>>]]>>,
      anomalies |-> <<
         \* Anomalous vs dominant mood 'high_energy_sad_fast'. distance_score=0.92. higher valence by 0.45; lower speechiness by 0.20; higher acousticness by 0.18
         [spotify_id |-> "pqr678", title |-> "Blinding Lights", cluster_id |-> 5, anomaly_score |-> 920,
          reason |-> <<"A","n","o","m","a","l","o","u","s"," ","v","s"," ","d","o","m","i","n","a","n","t"," ","m","o","o","d"," ","'","h","i","g","h","_","e","n","e","r","g","y","_","s","a","d","_","f","a","s","t","'","."," ","d","i","s","t","a","n","c","e","_","s","c","o","r","e","=","0",".","9","2","."," ","h","i","g","h","e","r"," ","v","a","l","e","n","c","e"," ","b","y"," ","0",".","4","5",";"," ","l","o","w","e","r"," ","s","p","e","e","c","h","i","n","e","s","s"," ","b","y"," ","0",".","2","0",";"," ","h","i","g","h","e","r"," ","a","c","o","u","s","t","i","c","n","e","s","s"," ","b","y"," ","0",".","1","8">>],
         \* Anomalous vs dominant mood 'high_energy_sad_fast'. distance_score=0.88. higher valence by 0.38; higher acousticness by 0.25; lower energy by 0.10
         [spotify_id |-> "stu901", title |-> "Save Your Tears", cluster_id |-> 5, anomaly_score |-> 880,
          reason |-> <<"A","n","o","m","a","l","o","u","s"," ","v","s"," ","d","o","m","i","n","a","n","t"," ","m","o","o","d"," ","'","h","i","g","h","_","e","n","e","r","g","y","_","s","a","d","_","f","a","s","t","'","."," ","d","i","s","t","a","n","c","e","_","s","c","o","r","e","=","0",".","8","8","."," ","h","i","g","h","e","r"," ","v","a","l","e","n","c","e"," ","b","y"," ","0",".","3","8",";"," ","h","i","g","h","e","r"," ","a","c","o","u","s","t","i","c","n","e","s","s"," ","b","y"," ","0",".","2","5",";"," ","l","o","w","e","r"," ","e","n","e","r","g","y"," ","b","y"," ","0",".","1","0">>],
         \* Anomalous vs dominant mood 'high_energy_sad_fast'. distance_score=0.85. lower tempo by 20 BPM; higher valence by 0.30; higher danceability by 0.12
         [spotify_id |-> "vwx234", title |-> "Starboy", cluster_id |-> 0, anomaly_score |-> 850,
          reason |-> <<"A","n","o","m","a","l","o","u","s"," ","v","s"," ","d","o","m","i","n","a","n","t"," ","m","o","o","d"," ","'","h","i","g","h","_","e","n","e","r","g","y","_","s","a","d","_","f","a","s","t","'","."," ","d","i","s","t","a","n","c","e","_","s","c","o","r","e","=","0",".","8","5","."," ","l","o","w","e","r"," ","t","e","m","p","o"," ","b","y"," ","2","0"," ","B","P","M",";"," ","h","i","g","h","e","r"," ","v","a","l","e","n","c","e"," ","b","y"," ","0",".","3","0",";"," ","h","i","g","h","e","r"," ","d","a","n","c","e","a","b","i","l","i","t","y"," ","b","y"," ","0",".","1","2">>],
         \* Anomalous vs dominant mood 'high_energy_sad_fast'. distance_score=0.83. lower tempo by 42 BPM; lower energy by 0.15; higher acousticness by 0.22
         [spotify_id |-> "yza567", title |-> "The Hills", cluster_id |-> 6, anomaly_score |-> 830,
          reason |-> <<"A","n","o","m","a","l","o","u","s"," ","v","s"," ","d","o","m","i","n","a","n","t"," ","m","o","o","d"," ","'","h","i","g","h","_","e","n","e","r","g","y","_","s","a","d","_","f","a","s","t","'","."," ","d","i","s","t","a","n","c","e","_","s","c","o","r","e","=","0",".","8","3","."," ","l","o","w","e","r"," ","t","e","m","p","o"," ","b","y"," ","4","2"," ","B","P","M",";"," ","l","o","w","e","r"," ","e","n","e","r","g","y"," ","b","y"," ","0",".","1","5",";"," ","h","i","g","h","e","r"," ","a","c","o","u","s","t","i","c","n","e","s","s"," ","b","y"," ","0",".","2","2">>],
         \* Anomalous vs dominant mood 'high_energy_sad_fast'. distance_score=0.82. lower tempo by 15 BPM; higher valence by 0.18; lower speechiness by 0.12
         [spotify_id |-> "bcd890", title |-> "Party Monster", cluster_id |-> 1, anomaly_score |-> 815,
          reason |-> <<"A","n","o","m","a","l","o","u","s"," ","v","s"," ","d","o","m","i","n","a","n","t"," ","m","o","o","d"," ","'","h","i","g","h","_","e","n","e","r","g","y","_","s","a","d","_","f","a","s","t","'","."," ","d","i","s","t","a","n","c","e","_","s","c","o","r","e","=","0",".","8","2","."," ","l","o","w","e","r"," ","t","e","m","p","o"," ","b","y"," ","1","5"," ","B","P","M",";"," ","h","i","g","h","e","r"," ","v","a","l","e","n","c","e"," ","b","y"," ","0",".","1","8",";"," ","l","o","w","e","r"," ","s","p","e","e","c","h","i","n","e","s","s"," ","b","y"," ","0",".","1","2">>]>>]>>]

---------------------------------------------------------------------------
(* CompareView and AnalysisView *)

\* the marker of an absent cluster in the presence matrix (U+2014 in the source)
NotPresentMarker == "--"

\* avgAudio as a plain mean over the clusters, the weights forgotten
avgAudio_Unweighted(p) ==
  LET clusters == ObjectValues(p.clusters)
  IN [f \in Range(Features) |->
        JsDiv(SumSeq([i \in DOMAIN clusters |->
                        clusters[i].centroid_features.audio_means[f]]),
              Len(clusters))]

\* CompareView.avgAudio
avgAudio(p) ==
  LET clusters == ObjectValues(p.clusters)
      total == SumSeq([i \in DOMAIN clusters |-> clusters[i].size])
  IN [f \in Range(Features) |->
        JsDiv(SumSeq([i \in DOMAIN clusters |->
                        clusters[i].centroid_features.audio_means[f] * clusters[i].size]),
              total)]

\* new Set<string>() filled with .add(): first occurrence keeps its place
RECURSIVE AddAll(_, _)
AddAll(acc, keys) ==
  IF keys = <<>> THEN acc
  ELSE AddAll(IF Head(keys) \in Range(acc) THEN acc ELSE Append(acc, Head(keys)),
              Tail(keys))

RECURSIVE AllClusters(_, _)
AllClusters(acc, playlists) ==
  IF playlists = <<>> THEN acc
  ELSE AllClusters(AddAll(acc, ObjectKeys(Head(playlists).clusters)), Tail(playlists))

\* the presence row filled from the first playlist only
ClusterPresence_FirstPlaylist(playlists, clusterArray) ==
  [c \in Range(clusterArray) |->
     [i \in DOMAIN playlists |-> In(c, playlists[1].clusters)]]

\* clusterPresence[cluster] = playlists.map((p) => cluster in p.clusters)
ClusterPresence(playlists, clusterArray) ==
  [c \in Range(clusterArray) |->
     [i \in DOMAIN playlists |-> In(c, playlists[i].clusters)]]

\* one cell of the presence matrix: its text, its title and its colouring
MatrixCell(present, cluster) ==
  LET size == IF cluster = Undefined THEN 0 ELSE cluster.size
  IN [text |-> IF present /\ size # 0 THEN ToString(size) ELSE NotPresentMarker,
      title |-> IF present THEN ToString(size) \o " tracks" ELSE "Not present",
      highlighted |-> present]

SharedClusters(clusterArray, presence) ==
  SelectSeq(clusterArray, LAMBDA c : \A i \in DOMAIN presence[c] : presence[c][i])

\* the unique filter with `>= 1` for `=== 1`
UniqueClusters_AtLeastOne(clusterArray, presence) ==
  SelectSeq(clusterArray,
            LAMBDA c : Cardinality({i \in DOMAIN presence[c] : presence[c][i]}) >= 1)

UniqueClusters(clusterArray, presence) ==
  SelectSeq(clusterArray,
            LAMBDA c : Cardinality({i \in DOMAIN presence[c] : presence[c][i]}) = 1)

RenderError == [component |-> "TypeError"]

\* AnalysisView for the tab `active` (0-based, as useState(0) keeps it)
AnalysisView(d, active) ==
  IF active + 1 \notin DOMAIN d.playlists
  THEN RenderError    \* playlist is undefined: playlist.summary throws
  ELSE LET playlist == d.playlists[active + 1]
       IN [component |-> "AnalysisView",
           tabs |-> IF Len(d.playlists) > 1
                    THEN [i \in DOMAIN d.playlists |-> d.playlists[i].playlist_name]
                    ELSE <<>>,
           totalTracks |-> playlist.summary.num_tracks,
           analyzed |-> playlist.summary.num_eligible,
           clusterCount |-> Len(ObjectKeys(playlist.clusters)),
           outliers |-> playlist.summary.num_anomalies,
           distribution |->
             [i \in DOMAIN playlist.clusters |->
                [name |-> playlist.clusters[i].key,
                 size |-> playlist.clusters[i].val.size,
                 pct |-> JsTimes(JsDiv(playlist.clusters[i].val.size,
                                       playlist.summary.num_eligible), 100)]],
           anomalies |-> playlist.anomalies]

CompareView(d, active) ==
  IF Len(d.playlists) < 2 THEN AnalysisView(d, active)
  ELSE LET playlists == d.playlists
           clusterArray == AllClusters(<<>>, playlists)
           presence == ClusterPresence(playlists, clusterArray)
       IN [component |-> "CompareView",
           averages |-> [i \in DOMAIN playlists |-> avgAudio(playlists[i])],
           clusterArray |-> clusterArray,
           clusterPresence |-> presence,
           matrix |-> [c \in Range(clusterArray) |->
                         [i \in DOMAIN playlists |->
                            MatrixCell(presence[c][i], Get(playlists[i].clusters, c))]],
           shared |-> SharedClusters(clusterArray, presence),
           unique |-> UniqueClusters(clusterArray, presence)]

\* ActionDashboard.renderResult for an AnalysisResult
renderResult(res, action, active) ==
  IF action = "compare" THEN CompareView(res, active)
  ELSE AnalysisView(res, active)

---------------------------------------------------------------------------
(* Analysis results the views are rendered from *)

\* the mood labels of the comparison example (spec section 8), in the order
\* the backend lists their clusters
LabelNames == <<"chill", "hype">>
Labels == Range(LabelNames)
PlaylistIds == <<"p1", "p2", "p3", "p4">>

\* the centroid of a generated cluster: two centroids of PLACEHOLDER_ANALYSIS
CentroidOf(label) ==
  LET clusters == PLACEHOLDER_ANALYSIS.playlists[1].clusters
  IN IF label = "chill" THEN clusters[2].val.centroid_features.audio_means
     ELSE clusters[1].val.centroid_features.audio_means

GenCluster(id, size, means) ==
  [cluster_id |-> id, size |-> size,
   centroid_features |-> [audio_means |-> means, top_tags |-> <<>>,
                          tag_weights_top |-> <<>>],
   tracks |-> <<>>]

\* per label: absent (-1) or present with a size
SizeChoices == -1..MaxSize

\* the clusters Record of one generated playlist: the chosen labels in the
\* order of LabelNames, cluster ids dense from 0
RECURSIVE ClustersOf(_, _, _)
ClustersOf(choice, i, acc) ==
  IF i > Len(LabelNames) THEN acc
  ELSE IF choice[LabelNames[i]] < 0 THEN ClustersOf(choice, i + 1, acc)
  ELSE ClustersOf(choice, i + 1,
         Append(acc, [key |-> LabelNames[i],
                      val |-> GenCluster(Len(acc), choice[LabelNames[i]],
                                         CentroidOf(LabelNames[i]))]))

GenPlaylist(n, choice) ==
  LET clusters == ClustersOf(choice, 1, <<>>)
      eligible == SumSeq([i \in DOMAIN clusters |-> clusters[i].val.size])
  IN [playlist_id |-> PlaylistIds[n], playlist_name |-> PlaylistIds[n],
      summary |-> [num_tracks |-> eligible, num_eligible |-> eligible,
                   num_excluded_missing_all |-> 0,
                   num_excluded_insufficient_audio_cluster |-> 0,
                   num_clusters |-> Len(clusters), num_anomalies |-> 0,
                   anomaly_score_cutoff |-> 0],
      clusters |-> clusters, anomalies |-> <<>>]

\* the result of n generated playlists
GenResult(n, choices) ==
  [generated_at |-> "2026-02-22T09:13:50.367Z",
   num_playlists |-> n,
   playlists |-> [i \in 1..n |-> GenPlaylist(i, choices[i])]]

---------------------------------------------------------------------------
(* The result views: the action's result arrives, is put on the screen and *)
(* the user switches playlist tabs                                          *)

NotRendered == [component |-> "none"]
NoRequest == [path |-> "none"]
NoResponse == [status |-> 0]
NoCard == [kind |-> "unmounted"]
NoOutcome == [kind |-> "none"]

\* ActionDashboard has issued no request yet
NothingIssued == issued = 0 /\ retries = 0 /\ inFlight = 0

\* HomePage is not on the screen and apiFetch has not been called
NoHomePage ==
  /\ token = <<>>
  /\ settled = NoOutcome
  /\ location = [path |-> "none"]
  /\ home = [mounted |-> FALSE]
  /\ fetches = <<>>

\* ActionDashboard right after mount of an analysis action: the spinner
InitViews ==
  /\ currentAction \in {"analysis", "compare"}
  /\ selectedPlaylists = <<>>
  /\ loading = TRUE
  /\ error = NoError
  /\ result = NullResult
  /\ activePlaylist = 0
  /\ view = NotRendered
  /\ reason = NoCard
  /\ parsed = NoCard
  /\ now = 0
  /\ runs = <<>>
  /\ pc = "awaiting"
  /\ request = NoRequest
  /\ response = NoResponse
  /\ NothingIssued
  /\ NoHomePage

\* setResult(analysisData) and, in the finally block, setLoading(false)
SetResult(d) ==
  /\ result' = d
  /\ loading' = FALSE
  /\ pc' = "settled"
  /\ UNCHANGED <<currentAction, selectedPlaylists, error, activePlaylist, view>>
  /\ UNCHANGED <<cardVars, apiVars, request, response, countVars, token, settled, homeVars>>

\* the pending request resolves with a generated result, or with the
\* placeholder that placeholderData.ts keeps for rendering
ResultArrives ==
  /\ loading /\ result = NullResult
  /\ \/ \E n \in 0..MaxPlaylists : \E choices \in [1..n -> [Labels -> SizeChoices]] :
          SetResult(GenResult(n, choices))
     \/ SetResult(PLACEHOLDER_ANALYSIS)

\* {!loading && !error && result && renderResult()}
RenderResult ==
  /\ ~loading /\ error = NoError /\ result # NullResult
  /\ view = NotRendered
  /\ view' = renderResult(result, currentAction, activePlaylist)
  /\ UNCHANGED <<currentAction, selectedPlaylists, loading, error, result,
                 activePlaylist>>
  /\ UNCHANGED <<cardVars, apiVars, fetchVars, countVars, token, settled, homeVars>>

\* a playlist tab of AnalysisView is clicked: setActivePlaylist(i), re-render
SetActivePlaylist(i) ==
  /\ view.component = "AnalysisView"
  /\ i + 1 \in DOMAIN view.tabs
  /\ i # activePlaylist
  /\ activePlaylist' = i
  /\ view' = renderResult(result, currentAction, i)
  /\ UNCHANGED <<currentAction, selectedPlaylists, loading, error, result>>
  /\ UNCHANGED <<cardVars, apiVars, fetchVars, countVars, token, settled, homeVars>>

NextViews ==
  \/ ResultArrives
  \/ RenderResult
  \/ \E i \in 0..(MaxPlaylists - 1) : SetActivePlaylist(i)

SpecViews == InitViews /\ [][NextViews]_vars

---------------------------------------------------------------------------
(* placeholderData.ts: parseAnomalyReason.  Regular expressions are matched *)
(* on the characters of the string; positions are 1-based.  In the three    *)
(* patterns every greedy run is followed by a character outside the run's   *)
(* class, so the longest run is the only one the backtracking can accept.   *)

Digits == {"0", "1", "2", "3", "4", "5", "6", "7", "8", "9"}
Letters ==
  {"a", "b", "c", "d", "e", "f", "g", "h", "i", "j", "k", "l", "m", "n", "o", "p", "q", "r", "s", "t", "u", "v", "w", "x", "y", "z",
   "A", "B", "C", "D", "E", "F", "G", "H", "I", "J", "K", "L", "M", "N", "O", "P", "Q", "R", "S", "T", "U", "V", "W", "X", "Y", "Z"}
\* the class [\d.]
DigitOrDot == Digits \cup {"."}
\* the class \w
WordChars == Letters \cup Digits \cup {"_"}

LitDominantMood == <<"d", "o", "m", "i", "n", "a", "n", "t", " ", "m", "o", "o", "d", " ", "'">>
LitDistanceScore == <<"d", "i", "s", "t", "a", "n", "c", "e", "_", "s", "c", "o", "r", "e", "=">>
LitHigher == <<"h", "i", "g", "h", "e", "r">>
LitLower == <<"l", "o", "w", "e", "r">>
LitBy == <<" ", "b", "y", " ">>

\* the literal lit stands in str at position i
LitAt(str, i, lit) ==
  /\ i + Len(lit) - 1 <= Len(str)
  /\ \A k \in DOMAIN lit : str[i + k - 1] = lit[k]

Min(S) == CHOOSE x \in S : \A y \in S : x <= y

\* position after the longest run of characters of the class that starts at i
RunEnd(str, i, class) ==
  Min({j \in i..(Len(str) + 1) : j > Len(str) \/ str[j] \notin class})

NoMatch == [kind |-> "no match"]
Match(groups, end) == [kind |-> "match", groups |-> groups, end |-> end]

\* /dominant mood '([^']+)'/ anchored at i
MoodAt(str, i) ==
  LET s == i + Len(LitDominantMood)
      e == RunEnd(str, s, Range(str) \ {"'"})
  IN IF /\ LitAt(str, i, LitDominantMood)
        /\ e > s
        /\ LitAt(str, e, <<"'">>)
     THEN Match(<<SubSeq(str, s, e - 1)>>, e + 1)
     ELSE NoMatch

\* /distance_score=([\d.]+)/ anchored at i
DistAt(str, i) ==
  LET s == i + Len(LitDistanceScore)
      e == RunEnd(str, s, DigitOrDot)
  IN IF LitAt(str, i, LitDistanceScore) /\ e > s
     THEN Match(<<SubSeq(str, s, e - 1)>>, e)
     ELSE NoMatch

\* /(higher|lower) (\w+) by ([\d.]+ \w+)/ anchored at i
DevAt(str, i) ==
  LET dir == IF LitAt(str, i, LitHigher) THEN LitHigher
             ELSE IF LitAt(str, i, LitLower) THEN LitLower ELSE <<>>
      f0 == i + Len(dir) + 1
      f1 == RunEnd(str, f0, WordChars)
      a0 == f1 + Len(LitBy)
      a1 == RunEnd(str, a0, DigitOrDot)
      u0 == a1 + 1
      u1 == RunEnd(str, u0, WordChars)
  IN IF /\ dir # <<>>
        /\ LitAt(str, i + Len(dir), <<" ">>)
        /\ f1 > f0
        /\ LitAt(str, f1, LitBy)
        /\ a1 > a0
        /\ LitAt(str, a1, <<" ">>)
        /\ u1 > u0
     THEN Match(<<dir, SubSeq(str, f0, f1 - 1), SubSeq(str, a0, u1 - 1)>>, u1)
     ELSE NoMatch

MatchAt(re, str, i) ==
  CASE re = "moodMatch" -> MoodAt(str, i)
    [] re = "distMatch" -> DistAt(str, i)
    [] re = "devRegex" -> DevAt(str, i)

\* RegExp.prototype.exec from lastIndex: the leftmost match, or null
RegExpExec(re, str, lastIndex) ==
  LET hits == {i \in lastIndex..Len(str) : MatchAt(re, str, i) # NoMatch}
  IN IF hits = {} THEN NoMatch ELSE MatchAt(re, str, Min(hits))

DigitValue(c) == CHOOSE n \in 0..9 : ToString(n) = c

RECURSIVE DigitsValue(_, _)
DigitsValue(ds, acc) ==
  IF ds = <<>> THEN acc ELSE DigitsValue(Tail(ds), 10 * acc + DigitValue(Head(ds)))

RECURSIVE Pow10(_)
Pow10(k) == IF k = 0 THEN 1 ELSE 10 * Pow10(k - 1)

\* parseFloat on a string of digits and dots: the longest prefix that reads
\* as a decimal literal, NaN when there is none
parseFloat(s) ==
  LET i1 == RunEnd(s, 1, Digits)
      hasDot == LitAt(s, i1, <<".">>)
      f1 == IF hasDot THEN RunEnd(s, i1 + 1, Digits) ELSE i1
      intDigits == SubSeq(s, 1, i1 - 1)
      fracDigits == IF hasDot THEN SubSeq(s, i1 + 1, f1 - 1) ELSE <<>>
  IN IF intDigits = <<>> /\ fracDigits = <<>> THEN NaN
     ELSE Num(DigitsValue(intDigits \o fracDigits, 0), Pow10(Len(fracDigits)))

\* while ((m = devRegex.exec(reason)) !== null) deviations.push(...)
RECURSIVE Deviations(_, _, _)
Deviations(str, lastIndex, acc) ==
  LET m == RegExpExec("devRegex", str, lastIndex)
  IN IF m = NoMatch THEN acc
     ELSE Deviations(str, m.end,
            Append(acc, [feature |-> m.groups[2], direction |-> m.groups[1],
                         amount |-> m.groups[3]]))

parseAnomalyReason(str) ==
  LET moodMatch == RegExpExec("moodMatch", str, 1)
      distMatch == RegExpExec("distMatch", str, 1)
  IN [dominantMood |-> IF moodMatch = NoMatch THEN <<>> ELSE moodMatch.groups[1],
      distanceScore |-> IF distMatch = NoMatch THEN Num(0, 1)
                        ELSE parseFloat(distMatch.groups[1]),
      deviations |-> Deviations(str, 1, <<>>)]

---------------------------------------------------------------------------
(* Reason strings an AnomalyCard is given: the reasons of                   *)
(* PLACEHOLDER_ANALYSIS and reasons put together from its clauses           *)

LitAnomalousVs == <<"A", "n", "o", "m", "a", "l", "o", "u", "s", " ", "v", "s", " ">>
MoodNames == {<<"c", "h", "i", "l", "l">>, <<"h", "y", "p", "e">>}
ScoreTexts == {<<"1", ".", "0", "0">>, <<"0", ".", "8", "5">>}

\* the three clause shapes of PLACEHOLDER_ANALYSIS: an amount in BPM, an
\* amount in dB and a bare amount
ClauseTails ==
  {<<" ", "t", "e", "m", "p", "o", " ", "b", "y", " ", "6", "5", " ", "B", "P", "M">>,
   <<" ", "l", "o", "u", "d", "n", "e", "s", "s", " ", "b", "y", " ", "0", ".", "7", " ", "d", "B">>,
   <<" ", "e", "n", "e", "r", "g", "y", " ", "b", "y", " ", "0", ".", "1", "2">>}
Clauses == {dir \o tail : dir \in {LitHigher, LitLower}, tail \in ClauseTails}

RECURSIVE Join(_, _)
Join(parts, sep) ==
  IF parts = <<>> THEN <<>>
  ELSE IF Len(parts) = 1 THEN parts[1]
  ELSE parts[1] \o sep \o Join(Tail(parts), sep)

GenReason(mood, score, clauses) ==
  LitAnomalousVs \o LitDominantMood \o mood \o <<"'", ".", " ">>
    \o LitDistanceScore \o score \o <<".">>
    \o (IF clauses = <<>> THEN <<>> ELSE <<" ">> \o Join(clauses, <<";", " ">>))

---------------------------------------------------------------------------
(* AnomalyCard: the card of one anomaly, its reason parsed by useMemo *)

InitParse ==
  /\ currentAction = "anomaly"
  /\ selectedPlaylists = <<>>
  /\ loading = FALSE
  /\ error = NoError
  /\ result = NullResult
  /\ activePlaylist = 0
  /\ view = NotRendered
  /\ reason = NoCard
  /\ parsed = NoCard
  /\ now = 0
  /\ runs = <<>>
  /\ pc = "settled"
  /\ request = NoRequest
  /\ response = NoResponse
  /\ NothingIssued
  /\ NoHomePage

\* const parsed = useMemo(() => parseAnomalyReason(anomaly.reason), [anomaly.reason])
AnomalyCard(anomalyReason) ==
  /\ reason' = anomalyReason
  /\ parsed' = parseAnomalyReason(anomalyReason)
  /\ UNCHANGED <<dashVars, apiVars, fetchVars, countVars, token, settled, homeVars>>

\* a card of an anomaly of PLACEHOLDER_ANALYSIS
PlaceholderCard ==
  /\ reason = NoCard
  /\ \E i \in DOMAIN PLACEHOLDER_ANALYSIS.playlists :
       \E j \in DOMAIN PLACEHOLDER_ANALYSIS.playlists[i].anomalies :
         AnomalyCard(PLACEHOLDER_ANALYSIS.playlists[i].anomalies[j].reason)

\* a card of an anomaly whose reason has up to MaxClauses clauses
GeneratedCard ==
  /\ reason = NoCard
  /\ \E mood \in MoodNames : \E score \in ScoreTexts :
       \E n \in 0..MaxClauses : \E clauses \in [1..n -> Clauses] :
         AnomalyCard(GenReason(mood, score, clauses))

NextParse == PlaceholderCard \/ GeneratedCard

SpecParse == InitParse /\ [][NextParse]_vars

---------------------------------------------------------------------------
(* api.ts: transformAnalysisResponse.  A value that may be null is <<>>   *)
(* for null and <<v>> for the value v.                                     *)

Null == <<>>
Some(v) == <<v>>
\* v ?? d
OrElse(v, d) == IF v = Null THEN d ELSE v[1]

\* milliseconds as three digits
Pad3(ms) ==
  IF ms < 10 THEN "00" \o ToString(ms)
  ELSE IF ms < 100 THEN "0" \o ToString(ms) ELSE ToString(ms)

\* new Date().toISOString() when the clock reads t milliseconds into the
\* second the model runs in
toISOString(t) == "2026-02-22T09:13:50." \o Pad3(t) \o "Z"

Thrown(name, message) == [kind |-> "thrown", name |-> name, message |-> message]
IsThrown(x) == "kind" \in DOMAIN x /\ x.kind = "thrown"

\* the Cluster stored under c.label
ClusterOfRaw_NoTracks(c) ==
  [cluster_id |-> c.cluster_id,
   size |-> c.size,
   centroid_features |->
     [audio_means |-> [k \in DOMAIN c.centroid_features.audio_means |->
                         OrElse(c.centroid_features.audio_means[k], 0)],
      top_tags |-> c.centroid_features.top_tags,
      tag_weights_top |-> c.centroid_features.tag_weights_top],
   tracks |-> <<>>]
ClusterOfRaw(c) ==
  [cluster_id |-> c.cluster_id,
   size |-> c.size,
   centroid_features |->
     [audio_means |-> [k \in DOMAIN c.centroid_features.audio_means |->
                         OrElse(c.centroid_features.audio_means[k], 0)],
      top_tags |-> c.centroid_features.top_tags,
      tag_weights_top |-> c.centroid_features.tag_weights_top],
   tracks |-> c.tracks]

\* for (const c of p.clusters) clusters[c.label] = {...}
RECURSIVE ClustersRecord(_, _)
ClustersRecord(acc, rawClusters) ==
  IF rawClusters = <<>> THEN acc
  ELSE ClustersRecord(ObjectSet(acc, Head(rawClusters).label,
                                ClusterOfRaw(Head(rawClusters))),
                      Tail(rawClusters))

\* the anomalies pushed for one cluster, in track order
AnomaliesOfCluster(c) ==
  LET flagged == SelectSeq(c.tracks, LAMBDA t : t.is_anomaly)
  IN [i \in DOMAIN flagged |->
        [spotify_id |-> flagged[i].spotify_id,
         title |-> flagged[i].title,
         cluster_id |-> OrElse(flagged[i].cluster_id, c.cluster_id),
         anomaly_score |-> flagged[i].anomaly_score,
         reason |-> flagged[i].reason]]

RECURSIVE ExtractAnomalies(_)
ExtractAnomalies(rawClusters) ==
  IF rawClusters = <<>> THEN <<>>
  ELSE AnomaliesOfCluster(Head(rawClusters)) \o ExtractAnomalies(Tail(rawClusters))

\* anomalies.sort((a, b) => b.anomaly_score - a.anomaly_score): highest
\* score first, equal scores in their order of extraction (the sort is stable)
RECURSIVE SortByScore(_)
SortByScore(anoms) ==
  IF anoms = <<>> THEN <<>>
  ELSE LET rest == SortByScore(Tail(anoms))
           x == Head(anoms)
           before == SelectSeq(rest, LAMBDA y : y.anomaly_score > x.anomaly_score)
           after == SelectSeq(rest, LAMBDA y : y.anomaly_score <= x.anomaly_score)
       IN before \o <<x>> \o after

\* the callback with a summary it counts itself from the clusters it was given
TransformPlaylist_CountedSummary(p) ==
  [playlist_id |-> p.playlist_id,
   playlist_name |-> p.playlist_name,
   summary |-> IF "summary" \in DOMAIN p
               THEN [p.summary EXCEPT !.num_tracks = Len(p.clusters)]
               ELSE Undefined,
   clusters |-> ClustersRecord(<<>>, p.clusters),
   anomalies |-> SortByScore(ExtractAnomalies(p.clusters))]

\* the callback of raw.playlists.map
TransformPlaylist(p) ==
  [playlist_id |-> p.playlist_id,
   playlist_name |-> p.playlist_name,
   summary |-> IF "summary" \in DOMAIN p THEN p.summary ELSE Undefined,
   clusters |-> ClustersRecord(<<>>, p.clusters),
   anomalies |-> SortByScore(ExtractAnomalies(p.clusters))]

\* the transform with the anomalies array shared between runs: every run
\* pushes onto what the run before left in it
transformAnalysisResponse_SharedAnomalies(raw, t) ==
  LET left(i) ==
        IF runs # <<>> /\ ~IsThrown(runs[Len(runs)].out)
           /\ i \in DOMAIN runs[Len(runs)].out.playlists
        THEN runs[Len(runs)].out.playlists[i].anomalies ELSE <<>>
  IN IF \E i \in DOMAIN raw.playlists : "clusters" \notin DOMAIN raw.playlists[i]
     THEN Thrown("TypeError", "p.clusters is not iterable")
     ELSE [generated_at |-> toISOString(t),
           num_playlists |-> raw.num_playlists,
           playlists |-> [i \in DOMAIN raw.playlists |->
              [TransformPlaylist(raw.playlists[i]) EXCEPT
                 !.anomalies = SortByScore(left(i)
                                 \o ExtractAnomalies(raw.playlists[i].clusters))]]]

\* an entry without a clusters array: `for (const c of p.clusters)` throws
transformAnalysisResponse(raw, t) ==
  IF \E i \in DOMAIN raw.playlists : "clusters" \notin DOMAIN raw.playlists[i]
  THEN Thrown("TypeError", "p.clusters is not iterable")
  ELSE [generated_at |-> toISOString(t),
        num_playlists |-> raw.num_playlists,
        playlists |-> [i \in DOMAIN raw.playlists |->
                         TransformPlaylist(raw.playlists[i])]]

---------------------------------------------------------------------------
(* Responses of POST /analysis that the transform is run on *)

TrackVariants == {"none", "normal", "ascending", "unassigned"}

\* the cutoff the generated summaries report
RawCutoff == PLACEHOLDER_ANALYSIS.playlists[1].summary.anomaly_score_cutoff

\* the backend's flag: any track scoring at or above the cutoff
FlaggedByCutoff(score, cutoff) == score >= cutoff

RawTrack(id, cid, score) ==
  LET cutoff == RawCutoff
  IN [spotify_id |-> id, title |-> id, cluster_id |-> cid,
      anomaly_score |-> score, is_anomaly |-> FlaggedByCutoff(score, cutoff),
      reason |-> IF FlaggedByCutoff(score, cutoff)
                 THEN PLACEHOLDER_ANALYSIS.playlists[2].anomalies[1].reason
                 ELSE <<>>]

\* the tracks of the cluster in slot j: none, one ordinary track, two
\* anomalies in ascending score order (the first scoring exactly the cutoff),
\* or an ordinary track and an anomaly that carries no cluster_id of its own
RawTracks(j, variant) ==
  LET a == "t" \o ToString(j) \o "a"
      b == "t" \o ToString(j) \o "b"
  IN CASE variant = "none" -> <<>>
       [] variant = "normal" -> <<RawTrack(a, Some(j - 1), 500)>>
       [] variant = "ascending" ->
            <<RawTrack(a, Some(j - 1), RawCutoff), RawTrack(b, Some(j - 1), 900)>>
       [] variant = "unassigned" ->
            <<RawTrack(a, Some(j - 1), 500), RawTrack(b, Null, 900)>>

\* the centroid as the backend sends it: a mean it could not compute is null
RawMeans(label) ==
  [f \in DOMAIN CentroidOf(label) |->
     IF label = "hype" /\ f = "instrumentalness" THEN Null
     ELSE Some(CentroidOf(label)[f])]

RawCluster(j, label, variant) ==
  LET tracks == RawTracks(j, variant)
  IN [cluster_id |-> j - 1, label |-> label, size |-> Len(tracks),
      centroid_features |-> [audio_means |-> RawMeans(label), top_tags |-> <<>>,
                             tag_weights_top |-> <<>>],
      member_track_ids |-> [i \in DOMAIN tracks |-> tracks[i].spotify_id],
      tracks |-> tracks]

RawPlaylist(id, clusters) ==
  LET sizes == SumSeq([j \in DOMAIN clusters |-> clusters[j].size])
      flagged == SumSeq([j \in DOMAIN clusters |->
                   Len(SelectSeq(clusters[j].tracks, LAMBDA t : t.is_anomaly))])
  IN [playlist_id |-> id, playlist_name |-> id,
      clusters |-> clusters,
      moods |-> <<>>,
      summary |-> [num_tracks |-> sizes, num_eligible |-> sizes,
                   num_excluded_missing_all |-> 0,
                   num_excluded_insufficient_audio_cluster |-> 0,
                   num_clusters |-> Len(clusters), num_anomalies |-> flagged,
                   anomaly_score_cutoff |-> RawCutoff]]

\* three analysed playlists of a batch: no cluster, one cluster, two clusters
PlaylistKinds == {"empty", "single", "mixed"}
RawPlaylistOfKind(id, kind) ==
  CASE kind = "empty" -> RawPlaylist(id, <<>>)
    [] kind = "single" -> RawPlaylist(id, <<RawCluster(1, "chill", "normal")>>)
    [] kind = "mixed" -> RawPlaylist(id, <<RawCluster(1, "chill", "ascending"),
                                          RawCluster(2, "hype", "unassigned")>>)

RawResponse(playlists) == [num_playlists |-> Len(playlists), playlists |-> playlists]

---------------------------------------------------------------------------
(* analyzePlaylists run twice on the same response, the clock running *)

InitTransform ==
  /\ currentAction = "analysis"
  /\ selectedPlaylists = <<>>
  /\ loading = FALSE
  /\ error = NoError
  /\ result = NullResult
  /\ activePlaylist = 0
  /\ view = NotRendered
  /\ reason = NoCard
  /\ parsed = NoCard
  /\ now = 0
  /\ runs = <<>>
  /\ pc = "settled"
  /\ request = NoRequest
  /\ response = NoResponse
  /\ NothingIssued
  /\ NoHomePage

\* a millisecond passes
Tick ==
  /\ now < MaxClock
  /\ now' = now + 1
  /\ UNCHANGED <<dashVars, cardVars, runs, fetchVars, countVars, token, settled, homeVars>>

\* return transformAnalysisResponse(raw)
Transform(raw) ==
  /\ runs' = Append(runs, [raw |-> raw, at |-> now,
                           out |-> transformAnalysisResponse(raw, now)])
  /\ UNCHANGED <<dashVars, cardVars, now, fetchVars, countVars, token, settled, homeVars>>

\* the labels the Clustering Engine sends for clusters whose centroids map
\* to the given labels: a label that collides with an earlier cluster's
\* label in the playlist is suffixed with a numeric index
DisambiguatedLabels(labels) ==
  [j \in DOMAIN labels |->
     LET n == Cardinality({i \in 1..j : labels[i] = labels[j]})
     IN IF n = 1 THEN labels[j] ELSE labels[j] \o "_" \o ToString(n)]

\* the response has one playlist with up to MaxClusters clusters
AnalyzeOnePlaylist ==
  /\ runs = <<>>
  /\ \E k \in 0..MaxClusters :
       \E labels \in [1..k -> Labels] : \E variants \in [1..k -> TrackVariants] :
         Transform(RawResponse(
           <<RawPlaylist(PlaylistIds[1],
                         [j \in 1..k |-> [RawCluster(j, labels[j], variants[j])
                                            EXCEPT !.label = DisambiguatedLabels(labels)[j]]])>>))

\* the response has up to MaxPlaylists playlists
AnalyzeBatch ==
  /\ runs = <<>>
  /\ \E n \in 0..MaxPlaylists : \E kinds \in [1..n -> PlaylistKinds] :
       Transform(RawResponse([i \in 1..n |-> RawPlaylistOfKind(PlaylistIds[i], kinds[i])]))

\* the same response is fetched and transformed once more
AnalyzeAgain ==
  /\ Len(runs) = 1
  /\ Transform(runs[1].raw)

NextTransform == Tick \/ AnalyzeOnePlaylist \/ AnalyzeBatch \/ AnalyzeAgain

SpecTransform == InitTransform /\ [][NextTransform]_vars

---------------------------------------------------------------------------
(* ActionDashboard: executeAction from the mount effect or the Retry       *)
(* button, and the ways its request ends                                    *)

\* MainDashboard: the keys of the action cards
ActionKeys == {"anomaly", "analysis", "compare", "basic", "recommendations"}
\* executeAction: the cases that call analyzePlaylists
AnalysisActions == {"analysis", "compare", "anomaly"}

\* the playlists the user can have selected: at least one (hasSelection),
\* in the order of the playlist list
Selections ==
  {SelectSeq([i \in 1..MaxPlaylists |-> PlaylistIds[i]], LAMBDA id : id \in chosen)
     : chosen \in (SUBSET {PlaylistIds[i] : i \in 1..MaxPlaylists}) \ {{}}}

Init ==
  /\ currentAction \in ActionKeys
  /\ selectedPlaylists \in Selections
  /\ loading = TRUE
  /\ error = NoError
  /\ result = NullResult
  /\ activePlaylist = 0
  /\ view = NotRendered
  /\ reason = NoCard
  /\ parsed = NoCard
  /\ now = 0
  /\ runs = <<>>
  /\ pc = "mounted"
  /\ request = NoRequest
  /\ response = NoResponse
  /\ NothingIssued
  /\ NoHomePage

\* apiFetch(path, {method: "POST", body: JSON.stringify(playlistIds)})
PostRequest(path, playlistIds) == [path |-> path, method |-> "POST", body |-> playlistIds]

\* executeAction up to its await, or to its end for an action key the
\* switch does not know
executeAction ==
  /\ result' = NullResult
  /\ IF currentAction \in AnalysisActions
     THEN /\ request' = PostRequest("/analysis", selectedPlaylists)
          /\ loading' = TRUE /\ error' = NoError /\ pc' = "awaiting"
          /\ issued' = issued + 1 /\ inFlight' = inFlight + 1
     ELSE IF currentAction = "basic"
     THEN /\ request' = PostRequest("/basic", selectedPlaylists)
          /\ loading' = TRUE /\ error' = NoError /\ pc' = "awaiting"
          /\ issued' = issued + 1 /\ inFlight' = inFlight + 1
     ELSE /\ request' = NoRequest
          /\ loading' = FALSE
          /\ error' = "Unknown action: " \o currentAction
          /\ pc' = "settled"
          /\ UNCHANGED <<issued, inFlight>>
  /\ UNCHANGED <<currentAction, selectedPlaylists, activePlaylist, view,
                 cardVars, apiVars, response, token, settled, homeVars>>

\* useEffect(() => { executeAction(); }, [executeAction]) after mount
MountEffect ==
  /\ pc = "mounted"
  /\ executeAction
  /\ UNCHANGED retries

\* the Retry button of the error panel
Retry ==
  /\ pc # "mounted" /\ error # NoError /\ ~loading
  /\ issued < MaxRequests /\ retries < MaxRequests
  /\ executeAction
  /\ retries' = retries + 1

\* HomePage renders again while ActionDashboard stays mounted: the prop
\* selectedPlaylists is a new array (playlists.filter(...)), so useCallback
\* returns a new executeAction and the effect that depends on it runs again
ParentRerender ==
  /\ pc # "mounted"
  /\ issued < MaxRequests
  /\ executeAction
  /\ UNCHANGED retries

\* the entry of a playlist whose analysis failed: reported as failed, with
\* no summary and no clusters
FailedEntry(id) ==
  [playlist_id |-> id, playlist_name |-> id, failed |-> TRUE,
   error |-> "ComputationTimeout"]

\* the body POST /analysis answers with: one entry per submitted playlist,
\* the analysed siblings of a failed playlist still returned
AnalysisBackend(playlistIds, outcome) ==
  RawResponse([i \in DOMAIN playlistIds |->
                 IF outcome[i] = "failed" THEN FailedEntry(playlistIds[i])
                 ELSE RawPlaylistOfKind(playlistIds[i], outcome[i])])

\* the catch and finally blocks of executeAction
CatchError(message) ==
  /\ error' = message
  /\ loading' = FALSE
  /\ inFlight' = inFlight - 1
  /\ pc' = IF inFlight = 1 THEN "settled" ELSE "awaiting"
  /\ request' = IF inFlight = 1 THEN NoRequest ELSE request
  /\ UNCHANGED <<currentAction, selectedPlaylists, result, activePlaylist, view,
                 cardVars, apiVars, issued, retries, token, settled, homeVars>>

\* setResult(...) and the finally block
ResolveWith(value) ==
  /\ result' = value
  /\ loading' = FALSE
  /\ inFlight' = inFlight - 1
  /\ pc' = IF inFlight = 1 THEN "settled" ELSE "awaiting"
  /\ request' = IF inFlight = 1 THEN NoRequest ELSE request
  /\ UNCHANGED <<currentAction, selectedPlaylists, error, activePlaylist, view,
                 cardVars, apiVars, issued, retries, token, settled, homeVars>>

\* POST /analysis is answered 200: analyzePlaylists transforms the body and
\* executeAction stores the result, or catches what the transform throws
AnalysisResponds ==
  /\ pc = "awaiting" /\ request.path = "/analysis"
  /\ \E outcome \in [DOMAIN request.body -> PlaylistKinds \cup {"failed"}] :
       LET raw == AnalysisBackend(request.body, outcome)
           out == transformAnalysisResponse(raw, now)
       IN /\ response' = [status |-> 200, body |-> raw]
          /\ IF IsThrown(out) THEN CatchError(out.message) ELSE ResolveWith(out)

\* POST /basic is answered 200: the body is stored as it is
BasicResponds ==
  /\ pc = "awaiting" /\ request.path = "/basic"
  /\ LET body == [kind |-> "basic recommendations", playlist_ids |-> request.body]
     IN /\ response' = [status |-> 200, body |-> body]
        /\ ResolveWith(body)

\* apiFetch throws: 401, another non-2xx status, or fetch itself rejects
FetchFailures ==
  {[status |-> 401, message |-> "Session expired or invalid token"],
   [status |-> 500, message |-> "API 500: Internal Server Error"],
   [status |-> -1, message |-> "Failed to fetch"]}

RequestFails ==
  /\ pc = "awaiting"
  /\ \E f \in FetchFailures :
       /\ response' = [status |-> f.status]
       /\ CatchError(f.message)

Next ==
  \/ MountEffect
  \/ Retry
  \/ ParentRerender
  \/ AnalysisResponds
  \/ BasicResponds
  \/ RequestFails
  \/ Tick

Spec == Init /\ [][Next]_vars

---------------------------------------------------------------------------
(* auth.ts: the stored token and apiFetch.  A JavaScript object of headers *)
(* is a sequence of [key, val] entries as before; a missing init or a      *)
(* missing init.headers is Null.                                           *)

\* the JWTs the backend hands out
Tokens == {"jwtA", "jwtB"}

\* `token ? a : b`: null and the empty string are falsy
Truthy(str) == str # Null /\ str[1] # ""

\* {...a, ...b}: the entries of b are set on a copy of a, in order
RECURSIVE Spread(_, _)
Spread(a, b) ==
  IF b = <<>> THEN a ELSE Spread(ObjectSet(a, Head(b).key, Head(b).val), Tail(b))

\* ...(init?.headers): spreading undefined adds nothing
InitHeaders(init) ==
  IF init = Null THEN <<>> ELSE IF init[1].headers = Null THEN <<>> ELSE init[1].headers[1]

\* the headers object apiFetch builds
apiFetchHeaders(tok, init) ==
  Spread(Spread(<<[key |-> "Content-Type", val |-> "application/json"]>>,
                InitHeaders(init)),
         IF Truthy(tok)
         THEN <<[key |-> "Authorization", val |-> "Bearer " \o tok[1]]>>
         ELSE <<>>)

\* fetch(`${API_BASE}${path}`, { ...init, headers })
FetchCall(path, init, tok) ==
  [path |-> path,
   method |-> IF init = Null THEN "GET" ELSE init[1].method,
   init |-> init,
   headers |-> apiFetchHeaders(tok, init)]

\* header names are case-insensitive: the name fetch files an entry under
LowerCase(name) ==
  CASE name = "Authorization" -> "authorization"
    [] name = "Content-Type" -> "content-type"
    [] name = "Accept" -> "accept"
    [] OTHER -> name

RECURSIVE JoinValues(_)
JoinValues(vals) ==
  IF Len(vals) = 1 THEN vals[1] ELSE vals[1] \o ", " \o JoinValues(Tail(vals))

\* the value the request carries for a header name: fetch appends every
\* entry of the headers object to its header list, and the values of
\* entries with the same name are combined in order, separated by ", "
HeaderOf(headers, name) ==
  LET vals == ObjectValues(SelectSeq(headers, LAMBDA e : LowerCase(e.key) = name))
  IN IF vals = <<>> THEN Null ELSE Some(JoinValues(vals))

\* res.ok
Ok(status) == status \in 200..299

\* JSON.parse of the body texts the model uses; Null for a text that is
\* not JSON
JsonParse(text) ==
  CASE text = "[]" -> Some(<<>>)
    [] text = "[{\"spotify_id\":\"p1\"}]" -> Some(<<[spotify_id |-> "p1"]>>)
    [] text = "[{\"spotify_id\":\"p1\"},{\"spotify_id\":\"p2\"}]" ->
         Some(<<[spotify_id |-> "p1"], [spotify_id |-> "p2"]>>)
    [] OTHER -> Null

\* new AuthError(message, status)
AuthError(message, status) ==
  [kind |-> "thrown", name |-> "AuthError", message |-> message, status |-> status]

\* apiFetch after the await of fetch: how its promise settles for the
\* response, and the token it leaves in localStorage
apiFetch_ClearsTokenOn401(res, tok) ==
  IF res.status = 401
  THEN [settled |-> AuthError("Session expired or invalid token", 401), token |-> Null]
  ELSE IF ~Ok(res.status)
  THEN [settled |-> Thrown("Error", "API " \o ToString(res.status) \o ": " \o res.body),
        token |-> tok]
  ELSE [settled |-> IF JsonParse(res.body) = Null
                    THEN Thrown("SyntaxError", "Unexpected end of JSON input")
                    ELSE [kind |-> "returned", value |-> JsonParse(res.body)[1]],
        token |-> tok]
apiFetch(res, tok) ==
  IF res.status = 401
  THEN [settled |-> AuthError("Session expired or invalid token", 401), token |-> tok]
  ELSE IF ~Ok(res.status)
  THEN [settled |-> Thrown("Error", "API " \o ToString(res.status) \o ": " \o res.body),
        token |-> tok]
  ELSE [settled |-> IF JsonParse(res.body) = Null
                    THEN Thrown("SyntaxError", "Unexpected end of JSON input")
                    ELSE [kind |-> "returned", value |-> JsonParse(res.body)[1]],
        token |-> tok]

\* the init arguments of the calls: none, one without headers (as every
\* call in api.ts is), one with a headers object
CallerInits ==
  {Null} \cup {Some([method |-> m, headers |-> Null]) : m \in {"GET", "POST"}}
         \cup {Some([method |-> "POST", headers |-> Some(h)]) : h \in
                 {<<>>,
                  <<[key |-> "Accept", val |-> "text/csv"]>>,
                  <<[key |-> "Authorization", val |-> "Basic abc"]>>,
                  <<[key |-> "Authorization", val |-> "Basic abc"],
                    [key |-> "Accept", val |-> "text/csv"]>>,
                  <<[key |-> "authorization", val |-> "Basic abc"]>>}}

\* the page holds a token or none when apiFetch is called
InitFetch ==
  /\ currentAction = "analysis"
  /\ selectedPlaylists = <<>>
  /\ loading = FALSE
  /\ error = NoError
  /\ result = NullResult
  /\ activePlaylist = 0
  /\ view = NotRendered
  /\ reason = NoCard
  /\ parsed = NoCard
  /\ now = 0
  /\ runs = <<>>
  /\ pc = "settled"
  /\ request = NoRequest
  /\ response = NoResponse
  /\ NothingIssued
  /\ token \in {Null} \cup {Some(t) : t \in Tokens}
  /\ settled = NoOutcome
  /\ location = [path |-> "none"]
  /\ home = [mounted |-> FALSE]
  /\ fetches = <<>>

\* apiFetch(path, init) up to its await
CallApiFetch ==
  /\ request = NoRequest
  /\ \E path \in {"/playlists", "/analysis"} : \E init \in CallerInits :
       request' = FetchCall(path, init, token)
  /\ UNCHANGED <<dashVars, cardVars, apiVars, pc, response, countVars, token, settled, homeVars>>

\* the backend answers and apiFetch runs to its end
FetchResponds ==
  /\ request # NoRequest /\ settled = NoOutcome
  /\ \E status \in {200, 201, 301, 401, 403, 500} :
     \E body \in {"[]", "[{\"spotify_id\":\"p1\"}]", "Internal Server Error"} :
       LET res == [status |-> status, body |-> body]
       IN /\ response' = res
          /\ settled' = apiFetch(res, token).settled
          /\ token' = apiFetch(res, token).token
  /\ UNCHANGED <<dashVars, cardVars, apiVars, pc, request, countVars, homeVars>>

\* no answer arrives: fetch rejects and apiFetch rejects with the same error
FetchRejects ==
  /\ request # NoRequest /\ settled = NoOutcome
  /\ response' = [status |-> -1]
  /\ settled' = Thrown("TypeError", "Failed to fetch")
  /\ UNCHANGED <<dashVars, cardVars, apiVars, pc, request, countVars, token, homeVars>>

NextFetch == CallApiFetch \/ FetchResponds \/ FetchRejects

SpecFetch == InitFetch /\ [][NextFetch]_vars

---------------------------------------------------------------------------
(* App.tsx: HomePage.  The handlers are written as functions of the world  *)
(* w = [token, location, home, fetches]; an action applies a handler and   *)
(* then the renders and effects React runs because of it.                  *)

MaxFetches == 2      \* playlist fetches HomePage starts in one behaviour

World == [token |-> token, location |-> location, home |-> home, fetches |-> fetches]

Apply(w) ==
  /\ token' = w.token
  /\ location' = w.location
  /\ home' = w.home
  /\ fetches' = w.fetches

\* HomePage after useState/useRef of its first render; committed, seenParam
\* and seenReady are React's record of the dependencies the effects last
\* ran with, cleanup is the fetch whose controller Effect 2's registered
\* cleanup aborts (0: no cleanup registered); entry keeps the `token`
\* query parameter HomePage was entered with
FreshHome(strict, tokenParam) ==
  [mounted |-> TRUE, strict |-> strict, entry |-> tokenParam,
   ready |-> FALSE, loading |-> TRUE, error |-> NoError, playlists |-> <<>>,
   fetchStarted |-> FALSE, cleanup |-> 0, timer |-> FALSE,
   committed |-> FALSE, seenParam |-> Null, seenReady |-> FALSE]

\* navigate(path, { replace: true })
navigate(w, path) == [w EXCEPT !.location = [path |-> path, tokenParam |-> Null]]

\* Effect 1, for the searchParams of the render it belongs to
Effect1_ReadyWithoutToken(w, tokenParam) ==
  IF Truthy(tokenParam)
  THEN [navigate([w EXCEPT !.token = Some(tokenParam[1])], "/home")
          EXCEPT !.home.ready = TRUE]
  ELSE [w EXCEPT !.home.ready = TRUE]
Effect1(w, tokenParam) ==
  IF Truthy(tokenParam)
  THEN [navigate([w EXCEPT !.token = Some(tokenParam[1])], "/home")
          EXCEPT !.home.ready = TRUE]
  ELSE IF w.token = Null
  THEN navigate(w, "/")
  ELSE [w EXCEPT !.home.ready = TRUE]

\* Effect 2, for the value of ready of the render it belongs to; apiFetch
\* reads the token as fetchPlaylists(controller.signal) is called
Effect2_NoController(w, ready) ==
  IF ~ready THEN w
  ELSE IF w.home.fetchStarted THEN w
  ELSE [w EXCEPT !.home.fetchStarted = TRUE,
                 !.fetches = Append(@, [aborted |-> FALSE, state |-> "pending",
                                       token |-> w.token, settled |-> NoOutcome])]
Effect2(w, ready) ==
  IF ~ready THEN w
  ELSE IF w.home.fetchStarted THEN w
  ELSE [w EXCEPT !.home.fetchStarted = TRUE,
                 !.home.cleanup = Len(w.fetches) + 1,
                 !.fetches = Append(@, [aborted |-> FALSE, state |-> "pending",
                                       token |-> w.token, settled |-> NoOutcome])]

\* the cleanup Effect 2 returned, if it returned one
Cleanup2_KeepsFetchStarted(w) ==
  IF w.home.cleanup = 0 THEN w
  ELSE [w EXCEPT !.fetches[w.home.cleanup].aborted = TRUE,
                 !.home.cleanup = 0]
Cleanup2(w) ==
  IF w.home.cleanup = 0 THEN w
  ELSE [w EXCEPT !.fetches[w.home.cleanup].aborted = TRUE,
                 !.home.fetchStarted = FALSE,
                 !.home.cleanup = 0]

\* one commit of React: HomePage is unmounted when the route is no longer
\* /home; otherwise the effects whose dependencies changed run, cleanups
\* first, and under StrictMode the effects of the first commit are cleaned
\* up and run once more
Commit(w) ==
  IF w.location.path # "/home"
  THEN [Cleanup2(w) EXCEPT !.home.mounted = FALSE, !.home.timer = FALSE]
  ELSE LET h == w.home
           tokenParam == w.location.tokenParam
           ready == h.ready
           run1 == ~h.committed \/ h.seenParam # tokenParam
           run2 == ~h.committed \/ h.seenReady # ready
           w0 == [w EXCEPT !.home.committed = TRUE,
                           !.home.seenParam = tokenParam,
                           !.home.seenReady = ready]
           w1 == IF run2 THEN Cleanup2(w0) ELSE w0
           w2 == IF run1 THEN Effect1(w1, tokenParam) ELSE w1
           w3 == IF run2 THEN Effect2(w2, ready) ELSE w2
       IN IF h.strict /\ ~h.committed
          THEN Effect2(Effect1(Cleanup2(w3), tokenParam), ready)
          ELSE w3

\* React commits until nothing is left for it to do: HomePage is unmounted,
\* or no dependency of an effect differs from what the effect last ran with
RECURSIVE Render(_)
Render(w) ==
  IF \/ ~w.home.mounted
     \/ /\ w.location.path = "/home"
        /\ w.home.committed
        /\ w.home.seenParam = w.location.tokenParam
        /\ w.home.seenReady = w.home.ready
  THEN w
  ELSE Render(Commit(w))

\* if (loading) ... / if (error) ...: the screen HomePage returns
Screen(h) ==
  IF ~h.mounted THEN "none"
  ELSE IF h.loading THEN "loading"
  ELSE IF h.error # NoError /\ h.error # "" THEN "error"
  ELSE "dashboard"

\* what the backend answers GET /playlists with; status -1: no answer
HomeResponses ==
  {[status |-> 200, body |-> "[]"],
   [status |-> 200, body |-> "[{\"spotify_id\":\"p1\"}]"],
   [status |-> 200, body |-> "<html>"],
   [status |-> 401, body |-> "Unauthorized"],
   [status |-> 500, body |-> "Internal Server Error"],
   [status |-> -1, body |-> ""]}

\* the build runs HomePage under StrictMode or not; the browser holds a
\* token from an earlier login or none
InitHome ==
  /\ currentAction = "analysis"
  /\ selectedPlaylists = <<>>
  /\ loading = FALSE
  /\ error = NoError
  /\ result = NullResult
  /\ activePlaylist = 0
  /\ view = NotRendered
  /\ reason = NoCard
  /\ parsed = NoCard
  /\ now = 0
  /\ runs = <<>>
  /\ pc = "settled"
  /\ request = NoRequest
  /\ response = NoResponse
  /\ NothingIssued
  /\ token \in {Null} \cup {Some(t) : t \in Tokens}
  /\ settled = NoOutcome
  /\ location = [path |-> "/", tokenParam |-> Null]
  /\ \E strict \in BOOLEAN : home = [mounted |-> FALSE, strict |-> strict]
  /\ fetches = <<>>

\* the browser enters /home, with or without ?token=: HomePage mounts
MountHome ==
  /\ ~home.mounted /\ Len(fetches) < MaxFetches
  /\ \E tokenParam \in {Null, Some("")} \cup {Some(t) : t \in Tokens} :
       Apply(Render([World EXCEPT !.location = [path |-> "/home", tokenParam |-> tokenParam],
                                  !.home = FreshHome(home.strict, tokenParam)]))
  /\ UNCHANGED <<dashVars, cardVars, apiVars, fetchVars, countVars, settled>>

\* the browser leaves /home while HomePage is mounted
LeaveHome ==
  /\ home.mounted
  /\ Apply(Render(navigate(World, "/")))
  /\ UNCHANGED <<dashVars, cardVars, apiVars, fetchVars, countVars, settled>>

\* the promise of fetch i settles: the then, catch and finally callbacks
SettleFetch_ErrorScreenOn401(w, i, res) ==
  LET f == w.fetches[i]
      out == IF res.status = -1
             THEN [settled |-> Thrown("TypeError", "Failed to fetch"), token |-> w.token]
             ELSE apiFetch(res, w.token)
      err == out.settled
      w0 == [w EXCEPT !.token = out.token,
                      !.fetches[i].state = "settled",
                      !.fetches[i].settled = err]
      w1 == IF err.kind = "returned"
            THEN IF ~f.aborted THEN [w0 EXCEPT !.home.playlists = err.value] ELSE w0
            ELSE IF f.aborted THEN w0
            ELSE [w0 EXCEPT !.home.error = err.message]
  IN IF ~f.aborted THEN [w1 EXCEPT !.home.loading = FALSE] ELSE w1
SettleFetch(w, i, res) ==
  LET f == w.fetches[i]
      out == IF res.status = -1
             THEN [settled |-> Thrown("TypeError", "Failed to fetch"), token |-> w.token]
             ELSE apiFetch(res, w.token)
      err == out.settled
      w0 == [w EXCEPT !.token = out.token,
                      !.fetches[i].state = "settled",
                      !.fetches[i].settled = err]
      w1 == IF err.kind = "returned"
            THEN IF ~f.aborted THEN [w0 EXCEPT !.home.playlists = err.value] ELSE w0
            ELSE IF f.aborted THEN w0
            ELSE IF err.name = "AuthError" /\ err.status = 401
            THEN navigate([w0 EXCEPT !.token = Null], "/")
            ELSE [w0 EXCEPT !.home.error = err.message]
  IN IF ~f.aborted THEN [w1 EXCEPT !.home.loading = FALSE] ELSE w1

FetchSettles(i) ==
  /\ i \in DOMAIN fetches /\ fetches[i].state = "pending"
  /\ \E res \in HomeResponses : Apply(Render(SettleFetch(World, i, res)))
  /\ UNCHANGED <<dashVars, cardVars, apiVars, fetchVars, countVars, settled>>

\* the Retry button of the error screen
RetryHome_NoTimer ==
  /\ Screen(home) = "error" /\ Len(fetches) < MaxFetches
  /\ Apply(Render([World EXCEPT !.home.error = NoError,
                                !.home.loading = TRUE,
                                !.home.ready = FALSE]))
  /\ UNCHANGED <<dashVars, cardVars, apiVars, fetchVars, countVars, settled>>
RetryHome ==
  /\ Screen(home) = "error" /\ Len(fetches) < MaxFetches
  /\ Apply(Render([World EXCEPT !.home.error = NoError,
                                !.home.loading = TRUE,
                                !.home.ready = FALSE,
                                !.home.timer = TRUE]))
  /\ UNCHANGED <<dashVars, cardVars, apiVars, fetchVars, countVars, settled>>

\* setTimeout(() => setReady(true), 100) fires
TimerFires ==
  /\ home.mounted /\ home.timer
  /\ Apply(Render([World EXCEPT !.home.ready = TRUE, !.home.timer = FALSE]))
  /\ UNCHANGED <<dashVars, cardVars, apiVars, fetchVars, countVars, settled>>

NextHome ==
  \/ MountHome
  \/ LeaveHome
  \/ \E i \in 1..MaxFetches : FetchSettles(i)
  \/ RetryHome
  \/ TimerFires

SpecHome == InitHome /\ [][NextHome]_vars

\* the timer fires, and every fetch is answered or fails
SpecHomeFair ==
  /\ SpecHome
  /\ WF_vars(TimerFires)
  /\ \A i \in 1..MaxFetches : WF_vars(FetchSettles(i))

---------------------------------------------------------------------------
(* Properties of the result views, checked under SpecViews *)

InSeq(s, x) == \E i \in DOMAIN s : s[i] = x

\* the playlist has a cluster keyed by the label
HasCluster(p, label) == \E i \in DOMAIN p.clusters : p.clusters[i].key = label

\* every label some playlist of the result has a cluster for
LabelsOf(d) ==
  UNION {{d.playlists[i].clusters[j].key : j \in DOMAIN d.playlists[i].clusters}
           : i \in DOMAIN d.playlists}

PlaylistsWith(d, label) == {i \in DOMAIN d.playlists : HasCluster(d.playlists[i], label)}

CompareShown == view.component = "CompareView"

\* C1: in CompareView (N >= 2 playlists) the presence row of every label is
\* true exactly for the playlists that have a cluster keyed by the label; a
\* label is listed as shared iff its row is true for all N playlists and as
\* unique iff its row is true for exactly one.
C1_PresenceSharedUnique ==
  CompareShown =>
    /\ Range(view.clusterArray) = LabelsOf(result)
    /\ \A l \in LabelsOf(result) :
         /\ \A i \in DOMAIN result.playlists :
              view.clusterPresence[l][i] <=> HasCluster(result.playlists[i], l)
         /\ InSeq(view.shared, l) <=>
              \A i \in DOMAIN result.playlists : view.clusterPresence[l][i]
         /\ InSeq(view.unique, l) <=>
              Cardinality({i \in DOMAIN result.playlists : view.clusterPresence[l][i]}) = 1
    /\ Range(view.shared) \cup Range(view.unique) \subseteq LabelsOf(result)

\* C1 witness: a comparison with one label in every playlist and another
\* label in exactly one playlist is on the screen
C1_Witness ==
  /\ CompareShown
  /\ view.shared # <<>>
  /\ view.unique # <<>>
  /\ \E l \in LabelsOf(result) :
       /\ PlaylistsWith(result, l) # {}
       /\ PlaylistsWith(result, l) # DOMAIN result.playlists

PairwiseDisjointLabels(d) ==
  \A l \in LabelsOf(d) : Cardinality(PlaylistsWith(d, l)) = 1

\* C2: the shared and the unique label lists never have a label in common,
\* and when no label occurs in two playlists nothing is shared and every
\* label is unique (one playlist `chill`, the other `hype`: zero shared,
\* two unique).
C2_SharedUniqueDisjoint ==
  CompareShown =>
    /\ Range(view.shared) \cap Range(view.unique) = {}
    /\ PairwiseDisjointLabels(result) =>
         /\ view.shared = <<>>
         /\ Range(view.unique) = LabelsOf(result)
         /\ Len(view.unique) = Cardinality(LabelsOf(result))

\* C2 witness: the chill / hype comparison of the example is on the screen
C2_Witness ==
  /\ CompareShown
  /\ Len(result.playlists) = 2
  /\ ObjectKeys(result.playlists[1].clusters) = <<"chill">>
  /\ ObjectKeys(result.playlists[2].clusters) = <<"hype">>
  /\ view.shared = <<>>
  /\ Len(view.unique) = 2

\* a playlist with no eligible track or no cluster
Degenerate(p) == p.summary.num_eligible = 0 \/ p.clusters = <<>>

\* C6: for a playlist with zero eligible tracks or zero clusters, every
\* average of avgAudio and every cluster-distribution percentage that is
\* computed is a finite number, never NaN or Infinity.
C6_NoZeroDivision ==
  /\ CompareShown =>
       \A i \in DOMAIN result.playlists :
         Degenerate(result.playlists[i]) =>
           \A f \in DOMAIN view.averages[i] : IsFinite(view.averages[i][f])
  /\ view.component = "AnalysisView" =>
       (Degenerate(result.playlists[activePlaylist + 1]) =>
          \A j \in DOMAIN view.distribution : IsFinite(view.distribution[j].pct))

\* C7: a result with zero playlists is rendered as an empty output: the
\* render of CompareView (hence of AnalysisView) does not throw.
C7_EmptyResultRenders ==
  (result # NullResult /\ result.playlists = <<>> /\ view # NotRendered)
    => view # RenderError

\* C8: every cell of the presence matrix shows the cluster's size when the
\* playlist has a cluster with the row's label and the not-present marker
\* otherwise, so a present cluster never reads like an absent one.
C8_MatrixCells ==
  CompareShown =>
    \A l \in LabelsOf(result) : \A i \in DOMAIN result.playlists :
      LET p == result.playlists[i]
          cell == view.matrix[l][i]
      IN IF HasCluster(p, l)
         THEN /\ cell.text = ToString(Get(p.clusters, l).size)
              /\ cell.text # NotPresentMarker
         ELSE /\ cell.text = NotPresentMarker
              /\ cell.title = "Not present"

RECURSIVE SetSum(_, _)
SetSum(S, fn) ==
  IF S = {} THEN 0
  ELSE LET x == CHOOSE y \in S : TRUE IN fn[x] + SetSum(S \ {x}, fn)

TotalSize(p) == SetSum(DOMAIN p.clusters, [j \in DOMAIN p.clusters |-> p.clusters[j].val.size])

WeightedSum(p, f) ==
  SetSum(DOMAIN p.clusters,
         [j \in DOMAIN p.clusters |->
            p.clusters[j].val.centroid_features.audio_means[f] * p.clusters[j].val.size])

AudioDimensions ==
  {"acousticness", "danceability", "energy", "instrumentalness", "liveness",
   "loudness", "speechiness", "tempo", "valence"}

\* C9: for every compared playlist whose total cluster size is positive and
\* every one of the nine audio dimensions, avgAudio is the size-weighted
\* average: sum(centroid mean x cluster size) / sum(cluster size).
C9_WeightedAverage ==
  CompareShown =>
    \A i \in DOMAIN result.playlists :
      LET p == result.playlists[i] IN
      TotalSize(p) > 0 =>
        /\ DOMAIN view.averages[i] = AudioDimensions
        /\ \A f \in AudioDimensions :
             /\ IsFinite(view.averages[i][f])
             /\ SameNumber(view.averages[i][f], Num(WeightedSum(p, f), TotalSize(p)))

\* C9 witness: a compared playlist has two clusters of different sizes and
\* different centroids
C9_Witness ==
  /\ CompareShown
  /\ \E i \in DOMAIN result.playlists :
       LET c == result.playlists[i].clusters IN
       /\ Len(c) >= 2
       /\ c[1].val.size > 0 /\ c[2].val.size > c[1].val.size
       /\ c[1].val.centroid_features.audio_means # c[2].val.centroid_features.audio_means

---------------------------------------------------------------------------
(* Properties of the reason parser, checked under SpecParse *)

\* the pieces of str between the occurrences of sep
RECURSIVE Split(_, _)
Split(str, sep) ==
  LET hits == {i \in 1..Len(str) : LitAt(str, i, sep)}
  IN IF hits = {} THEN <<str>>
     ELSE <<SubSeq(str, 1, Min(hits) - 1)>>
            \o Split(SubSeq(str, Min(hits) + Len(sep), Len(str)), sep)

\* the grammar's reading of a reason: the label between the quotes, the
\* score between `distance_score=` and the `.` that ends the sentence, and
\* the clauses between the "; " separators, each `<dir> <feature> by <amount>`
GrammarLabel(str) == Split(str, <<"'">>)[2]
AfterScoreToken(str) == Split(str, LitDistanceScore)[2]
GrammarScoreText(str) ==
  LET rest == AfterScoreToken(str)
  IN IF LitAt(rest, Len(rest), <<".">>) THEN SubSeq(rest, 1, Len(rest) - 1)
     ELSE Split(rest, <<".", " ">>)[1]
GrammarClauses(str) ==
  LET rest == AfterScoreToken(str)
      body == SubSeq(rest, Len(GrammarScoreText(str)) + 3, Len(rest))
  IN IF body = <<>> THEN <<>> ELSE Split(body, <<";", " ">>)
GrammarDeviation(clause) ==
  LET words == Split(clause, <<" ">>)
  IN [direction |-> words[1], feature |-> words[2],
      amount |-> Join(SubSeq(words, 4, Len(words)), <<" ">>)]
\* the score text read as a decimal number
GrammarScore(str) ==
  LET parts == Split(GrammarScoreText(str), <<".">>)
      frac == IF Len(parts) > 1 THEN parts[2] ELSE <<>>
  IN Num(DigitsValue(parts[1] \o frac, 0), Pow10(Len(frac)))

CardShown == reason # NoCard

\* C3: every reason string of the grammar, the reasons of PLACEHOLDER_ANALYSIS
\* included, is parsed into the quoted dominant label, the score and exactly
\* one deviation per clause, in clause order, each with the clause's
\* direction, feature and amount; no clause is dropped.
C3_ParseKeepsEveryClause ==
  CardShown =>
    /\ parsed.dominantMood = GrammarLabel(reason)
    /\ IsFinite(parsed.distanceScore)
    /\ SameNumber(parsed.distanceScore, GrammarScore(reason))
    /\ Len(parsed.deviations) = Len(GrammarClauses(reason))
    /\ \A k \in DOMAIN parsed.deviations :
         parsed.deviations[k] = GrammarDeviation(GrammarClauses(reason)[k])

\* the parts of C3 the parser does keep: label, score, and the clauses whose
\* amount carries a unit word, in order
HasUnit(clause) == Len(Split(clause, <<" ">>)) > 4
C3_ParsesLabelScoreAndUnitClauses ==
  CardShown =>
    /\ parsed.dominantMood = GrammarLabel(reason)
    /\ SameNumber(parsed.distanceScore, GrammarScore(reason))
    /\ parsed.deviations =
         [k \in DOMAIN SelectSeq(GrammarClauses(reason), HasUnit) |->
            GrammarDeviation(SelectSeq(GrammarClauses(reason), HasUnit)[k])]

---------------------------------------------------------------------------
(* Properties of the response transform, checked under SpecTransform *)

RanTwice == Len(runs) = 2 /\ runs[1].raw = runs[2].raw

\* C5 as stated: for the same backend response two runs of analyzePlaylists /
\* transformAnalysisResponse produce AnalysisResult values that are identical
\* in every field.
C5_IdenticalInEveryField ==
  RanTwice => runs[1].out = runs[2].out

\* C5: for the same backend response two runs produce AnalysisResult values
\* with identical num_playlists and playlists (ids, names, summaries,
\* clusters, anomalies and their order); generated_at is the time of the run,
\* so the two values are identical in every field exactly when the runs read
\* the same clock value.
C5_IdenticalExceptGeneratedAt ==
  RanTwice =>
    /\ runs[1].out.num_playlists = runs[2].out.num_playlists
    /\ runs[1].out.playlists = runs[2].out.playlists
    /\ DOMAIN runs[1].out = DOMAIN runs[2].out
    /\ (runs[1].out = runs[2].out) <=> (runs[1].at = runs[2].at)

\* C5 witness: the same response, with anomalies to extract and sort, was
\* transformed at two different times
C5_Witness ==
  /\ RanTwice
  /\ runs[1].at # runs[2].at
  /\ runs[1].out.generated_at # runs[2].out.generated_at
  /\ \E i \in DOMAIN runs[2].out.playlists :
       Len(runs[2].out.playlists[i].anomalies) >= 2

---------------------------------------------------------------------------
(* Properties of the request life cycle, checked under Spec *)

FailedEntries(body) ==
  {i \in DOMAIN body.playlists : "failed" \in DOMAIN body.playlists[i]}

\* an analysis action has ended on a 200 response for several playlists of
\* which exactly one failed
OneOfSeveralFailed ==
  /\ pc = "settled"
  /\ currentAction \in AnalysisActions
  /\ response.status = 200
  /\ Len(response.body.playlists) >= 2
  /\ Cardinality(FailedEntries(response.body)) = 1

---------------------------------------------------------------------------
(* Properties of the AnalysisResult values the program holds *)

\* the results in the state: the one ActionDashboard renders from and the
\* outputs of the transform
ResultsHeld ==
  (IF "playlists" \in DOMAIN result THEN {result} ELSE {})
    \cup {runs[k].out : k \in {i \in DOMAIN runs : ~IsThrown(runs[i].out)}}

\* the places <<cluster, track>> of a playlist's cluster track lists
TrackPlaces(p) ==
  UNION {{<<c, t>> : t \in DOMAIN p.clusters[c].val.tracks} : c \in DOMAIN p.clusters}
TrackAt(p, place) == p.clusters[place[1]].val.tracks[place[2]]

\* C10: in every playlist of every AnalysisResult the program holds, no track
\* id occurs in two clusters' track lists, no track id has two anomaly
\* records, and no track id listed in anomalies is also a cluster track that is
\* not flagged anomalous or carries a different score.
C10_OneClusterOneAnomalyRecord ==
  \A d \in ResultsHeld : \A i \in DOMAIN d.playlists :
    LET p == d.playlists[i] IN
    /\ \A e1 \in TrackPlaces(p) : \A e2 \in TrackPlaces(p) :
         TrackAt(p, e1).spotify_id = TrackAt(p, e2).spotify_id => e1[1] = e2[1]
    /\ \A a \in DOMAIN p.anomalies : \A b \in DOMAIN p.anomalies :
         p.anomalies[a].spotify_id = p.anomalies[b].spotify_id => a = b
    /\ \A a \in DOMAIN p.anomalies : \A e \in TrackPlaces(p) :
         TrackAt(p, e).spotify_id = p.anomalies[a].spotify_id =>
           /\ TrackAt(p, e).is_anomaly
           /\ TrackAt(p, e).anomaly_score = p.anomalies[a].anomaly_score

---------------------------------------------------------------------------
(* Properties of the analysis data: the placeholder and the transform's    *)
(* outputs                                                                  *)

\* C11: in every playlist of an AnalysisResult the program holds, a cluster
\* track is flagged is_anomaly iff its anomaly_score is at or above
\* summary.anomaly_score_cutoff and is listed in anomalies iff it is flagged,
\* and no listed anomaly scores below the cutoff.
C11_FlaggedIffAtOrAboveCutoff ==
  \A d \in ResultsHeld : \A i \in DOMAIN d.playlists :
    LET p == d.playlists[i]
        cutoff == p.summary.anomaly_score_cutoff
        listed(id) == \E a \in DOMAIN p.anomalies : p.anomalies[a].spotify_id = id
    IN /\ \A e \in TrackPlaces(p) :
            /\ TrackAt(p, e).is_anomaly <=> TrackAt(p, e).anomaly_score >= cutoff
            /\ listed(TrackAt(p, e).spotify_id) <=> TrackAt(p, e).is_anomaly
       /\ \A a \in DOMAIN p.anomalies : p.anomalies[a].anomaly_score >= cutoff

Accounted(summary) ==
  summary.num_tracks = summary.num_eligible + summary.num_excluded_missing_all
                         + summary.num_excluded_insufficient_audio_cluster

\* C13: num_tracks = num_eligible + num_excluded_missing_all +
\* num_excluded_insufficient_audio_cluster in both summaries of
\* PLACEHOLDER_ANALYSIS, and transformAnalysisResponse hands every summary on
\* unchanged, so the equation holds in its output whenever it holds in the
\* response.
C13_ExclusionAccounting ==
  /\ \A i \in DOMAIN PLACEHOLDER_ANALYSIS.playlists :
       Accounted(PLACEHOLDER_ANALYSIS.playlists[i].summary)
  /\ \A k \in DOMAIN runs : \A i \in DOMAIN runs[k].raw.playlists :
       /\ runs[k].out.playlists[i].summary = runs[k].raw.playlists[i].summary
       /\ Accounted(runs[k].raw.playlists[i].summary)
            => Accounted(runs[k].out.playlists[i].summary)

\* C13 witness: a response with a playlist that has tracks and clusters was
\* transformed
C13_Witness ==
  \E k \in DOMAIN runs : \E i \in DOMAIN runs[k].out.playlists :
    /\ runs[k].out.playlists[i].summary.num_tracks > 0
    /\ runs[k].out.playlists[i].summary.num_clusters > 0
    /\ Accounted(runs[k].out.playlists[i].summary)

\* the string spelled by a sequence of characters
RECURSIVE StringOf(_)
StringOf(chars) == IF chars = <<>> THEN "" ELSE Head(chars) \o StringOf(Tail(chars))

\* the cluster in place c is the playlist's largest, the lowest cluster id
\* winning a tie
IsDominant(p, c) ==
  \A c2 \in DOMAIN p.clusters :
    \/ p.clusters[c2].val.size < p.clusters[c].val.size
    \/ /\ p.clusters[c2].val.size = p.clusters[c].val.size
       /\ p.clusters[c].val.cluster_id <= p.clusters[c2].val.cluster_id

\* C12: in every playlist of PLACEHOLDER_ANALYSIS the dominant mood that the
\* anomaly reasons name is the label of the playlist's largest cluster by
\* size, ties broken by the lowest cluster id.
C12_DominantMoodIsLargestCluster ==
  \A i \in DOMAIN PLACEHOLDER_ANALYSIS.playlists :
    LET p == PLACEHOLDER_ANALYSIS.playlists[i] IN
    \A j \in DOMAIN p.anomalies :
      (CardShown /\ reason = p.anomalies[j].reason) =>
        \E c \in DOMAIN p.clusters :
          /\ p.clusters[c].key = StringOf(parsed.dominantMood)
          /\ IsDominant(p, c)

\* C18: for one mount of ActionDashboard with an action key that has a
\* backend request, one request is issued by the mount and one more by each
\* click on Retry, and by nothing else.
C18_OneRequestPerMountOrRetry ==
  (pc # "mounted" /\ currentAction \in AnalysisActions \cup {"basic"})
    => issued = 1 + retries

\* C14: a request apiFetch makes while a token is stored carries the header
\* Authorization with the value `Bearer <stored token>`, whatever headers the
\* caller passed in init.headers; with no token stored the request carries
\* for Authorization only what the caller passed.
C14_BearerHeaderOfStoredToken ==
  (request # NoRequest /\ "headers" \in DOMAIN request) =>
    IF token # Null
    THEN HeaderOf(request.headers, "authorization") = Some("Bearer " \o token[1])
    ELSE HeaderOf(request.headers, "authorization")
           = HeaderOf(InitHeaders(request.init), "authorization")

InFlight == {i \in DOMAIN fetches : fetches[i].state = "pending" /\ ~fetches[i].aborted}

\* fetch i settles in this step
Settles(i) == fetches[i].state = "pending" /\ fetches'[i].state = "settled"

\* C16: while HomePage is mounted a token is stored (the one of the URL when
\* the URL had one) and the URL carries no token; a mounted HomePage that
\* shows the loading screen eventually has a playlist fetch under way or is
\* unmounted, and, every fetch settling, eventually shows another screen or
\* is unmounted.
C16_FetchStartedAndLoadingEnds ==
  /\ [](home.mounted =>
          /\ token # Null
          /\ ~Truthy(location.tokenParam)
          /\ Truthy(home.entry) => token = home.entry)
  /\ (home.mounted /\ home.loading) ~> (~home.mounted \/ home.cleanup # 0)
  /\ (home.mounted /\ home.loading) ~> (~home.mounted \/ ~home.loading)

C16_Witness ==
  /\ home.mounted /\ ~home.loading /\ Truthy(home.entry) /\ token = home.entry
  /\ Len(fetches) >= 2
  /\ fetches[2].state = "settled" /\ ~fetches[2].aborted

\* C17: at most one playlist fetch is in flight and not aborted, and the
\* step in which an aborted fetch settles leaves playlists, error and
\* loading of HomePage as they were.
C17_OneLiveFetchAbortedWritesNothing ==
  /\ [](Cardinality(InFlight) <= 1)
  /\ [][\A i \in DOMAIN fetches :
          (Settles(i) /\ fetches[i].aborted) =>
            /\ home'.playlists = home.playlists
            /\ home'.error = home.error
            /\ home'.loading = home.loading]_vars

C17_Witness ==
  \E i, j \in DOMAIN fetches :
    /\ fetches[i].aborted /\ fetches[i].state = "settled"
    /\ fetches[i].settled.kind = "returned"
    /\ j \in InFlight

\* C19: every playlist fetch was started with a token stored, and a mount
\* with no stored token and no non-empty `token` parameter navigates to "/"
\* without setting ready or starting a fetch.
C19_FetchOnlyWithToken ==
  /\ [](\A i \in DOMAIN fetches : fetches[i].token # Null)
  /\ [][(~home.mounted /\ home' # home /\ token = Null /\ ~Truthy(home'.entry)) =>
          /\ location'.path = "/"
          /\ ~home'.mounted /\ ~home'.ready
          /\ fetches' = fetches
          /\ token' = Null]_vars

C19_Witness ==
  /\ ~home.mounted /\ "entry" \in DOMAIN home /\ ~Truthy(home.entry)
  /\ token = Null /\ location.path = "/"
  /\ \E i \in DOMAIN fetches : fetches[i].settled.kind = "thrown"

\* C20: the step in which a fetch that is not aborted fails with an
\* AuthError of status 401 clears the token, navigates to "/" and sets no
\* error message; when it fails with any other error the token is kept and
\* HomePage shows the error screen with that error's message.
C20_FailureHandling ==
  [][\A i \in DOMAIN fetches :
       (Settles(i) /\ ~fetches[i].aborted /\ fetches'[i].settled.kind = "thrown") =>
         IF fetches'[i].settled.name = "AuthError" /\ fetches'[i].settled.status = 401
         THEN /\ token' = Null
              /\ location'.path = "/"
              /\ home'.error = NoError
         ELSE /\ token' = token
              /\ Screen(home') = "error"
              /\ home'.error = fetches'[i].settled.message]_vars

C20_Witness ==
  \E i, j \in DOMAIN fetches :
    /\ fetches[i].settled.kind = "thrown" /\ fetches[i].settled.name = "Error"
    /\ fetches[j].settled.kind = "thrown" /\ fetches[j].settled.name = "AuthError"
    /\ token = Null /\ location.path = "/" /\ home.error = NoError

\* C21: the click on Retry of HomePage's error screen clears the error,
\* shows the loading screen, sets ready false and arms the timer that sets
\* ready true again; a HomePage waiting with ready false then has ready true
\* and a new playlist fetch under way, or is unmounted, and once the fetch
\* settles the loading screen goes.
C21_RetryStartsNewFetch ==
  /\ [][(Screen(home) = "error" /\ home'.mounted /\ home' # home) =>
          /\ home'.error = NoError
          /\ Screen(home') = "loading"
          /\ ~home'.ready /\ home'.timer
          /\ Len(fetches') = Len(fetches)]_vars
  /\ (home.mounted /\ home.loading /\ ~home.ready)
       ~> (~home.mounted \/ (home.ready /\ home.cleanup \in InFlight))
  /\ (home.mounted /\ home.timer) ~> (~home.mounted \/ ~home.loading)

C21_Witness ==
  /\ home.mounted /\ home.ready /\ ~home.timer /\ Screen(home) = "loading"
  /\ Len(fetches) = 2
  /\ fetches[1].settled.kind = "thrown" /\ fetches[1].aborted
  /\ home.cleanup = 2 /\ 2 \in InFlight

\* C22: once the mount effect of ActionDashboard has run for an action key
\* that MainDashboard offers, a backend request has been issued for it and
\* the error is not the `Unknown action` message.
C22_EveryActionKeyIssuesRequest ==
  pc # "mounted" =>
    /\ issued >= 1
    /\ error # "Unknown action: " \o currentAction

=============================================================================
